---- MODULE Spec2Model ----
(***************************************************************************)
(* A model of the bitswap decision-and-dispatch core of go-ipfs:           *)
(*   - the peer request queue of the decision engine (prq),                *)
(*   - the public API of a Bitswap node (GetBlocks, HasBlock, Close),      *)
(*   - its workers (client batch worker, task workers, rebroadcast,        *)
(*     provide collector and provide workers),                            *)
(*   - the peer manager with one coalescing send queue per peer,           *)
(*   - the network adapter that connects the hosts of several nodes.       *)
(***************************************************************************)
EXTENDS Integers, Sequences, FiniteSets, Bags, TLC

\* ------------------------------------------------------------------------
\* Bounds of the model (not program constants)
\* ------------------------------------------------------------------------

\* number of tasks the peer request queue ever creates in one run
MaxTasks == 2

\* lowest value the pending counter of a partner is followed to
MaxOverCancel == 1

\* ------------------------------------------------------------------------
\* Identifiers.  Peer ids and block keys are multihashes: self-delimiting
\* byte strings of one fixed length per hash function.
\* ------------------------------------------------------------------------

Peers == {"QmA", "QmB"}

Keys == {"k1", "k2"}

\* priorities a remote peer declares in its wantlist entries
Prios == {1, 2}

NoTask == [none |-> TRUE]

\* ------------------------------------------------------------------------
\* thirdparty/pq: a binary heap (container/heap) over a slice.
\* Index i of the Go slice is position i+1 of the sequence; lt is the
\* comparator as the set of pairs <<a, b>> with cmp(a, b).
\* ------------------------------------------------------------------------

Swap(h, i, j) == [h EXCEPT ![i + 1] = h[j + 1], ![j + 1] = h[i + 1]]

Less(h, lt, i, j) == <<h[i + 1], h[j + 1]>> \in lt

RECURSIVE up(_, _, _)
up(h, lt, j) ==
  IF j = 0 THEN h
  ELSE LET i == (j - 1) \div 2 IN
       IF ~Less(h, lt, j, i) THEN h ELSE up(Swap(h, i, j), lt, i)

RECURSIVE down(_, _, _, _)
down(h, lt, i, n) ==
  LET j1 == 2 * i + 1 IN
  IF j1 >= n THEN [h |-> h, i |-> i]
  ELSE LET j2 == j1 + 1
           j  == IF j2 < n /\ Less(h, lt, j2, j1) THEN j2 ELSE j1
       IN IF ~Less(h, lt, j, i) THEN [h |-> h, i |-> i]
          ELSE down(Swap(h, i, j), lt, j, n)

pqPush(h, lt, x) == up(Append(h, x), lt, Len(h))

pqPop(h, lt) ==
  LET n == Len(h) - 1
      s == down(Swap(h, 0, n), lt, 0, n).h
  IN [elem |-> s[n + 1], h |-> SubSeq(s, 1, n)]

pqUpdate(h, lt, i) ==
  LET d == down(h, lt, i, Len(h)) IN IF d.i > i THEN d.h ELSE up(h, lt, i)

\* the index field an element of the heap carries (SetIndex on every swap)
Index(h, x) == CHOOSE i \in 0..(Len(h) - 1) : h[i + 1] = x

\* ------------------------------------------------------------------------
\* decision/peer_request_queue.go
\* ------------------------------------------------------------------------

taskKey(p, k) == p \o k

FIFO(a, b) == a.created < b.created

V1LowestFirst(a, b) ==
  IF a.Target = b.Target THEN a.Priority < b.Priority ELSE FIFO(a, b)

V1(a, b) == IF a.Target = b.Target THEN a.Priority > b.Priority ELSE FIFO(a, b)

partnerCompareActiveOnly(pa, pb) == pa.active < pb.active

partnerCompare(pa, pb) ==
  IF pa.requests = 0 THEN FALSE
  ELSE IF pb.requests = 0 THEN TRUE
  ELSE pa.active < pb.active

newActivePartner ==
  [active |-> 0, activeBlocks |-> {}, requests |-> 0, taskQueue |-> <<>>]

\* tasks: the task objects of the heap of the program, by creation stamp
newPRQ == [taskMap |-> <<>>, partners |-> <<>>, pQueue |-> <<>>,
           tasks |-> <<>>, clock |-> 1]

partnerLt(q) ==
  {pr \in (DOMAIN q.partners) \X (DOMAIN q.partners) :
     partnerCompare(q.partners[pr[1]], q.partners[pr[2]])}

taskLt(q) ==
  {pr \in (DOMAIN q.tasks) \X (DOMAIN q.tasks) :
     V1(q.tasks[pr[1]], q.tasks[pr[2]])}

Drop(f, x) == [y \in (DOMAIN f) \ {x} |-> f[y]]

PushNoLookup(q, entry, to) ==
  LET q1 == IF to \in DOMAIN q.partners THEN q
            ELSE LET qp == [q EXCEPT !.partners = (to :> newActivePartner) @@ @]
                 IN [qp EXCEPT !.pQueue = pqPush(@, partnerLt(qp), to)]
      id == q1.clock
      t  == [Key |-> entry.Key, Priority |-> entry.Priority, Target |-> to,
             created |-> q1.clock, trash |-> FALSE]
      q2 == [q1 EXCEPT !.tasks = (id :> t) @@ @, !.clock = @ + 1]
      q3 == [q2 EXCEPT !.partners[to].taskQueue = pqPush(@, taskLt(q2), id),
                       !.taskMap = (taskKey(to, entry.Key) :> id) @@ @,
                       !.partners[to].requests = @ + 1]
  IN [q3 EXCEPT !.pQueue = pqUpdate(@, partnerLt(q3), Index(q3.pQueue, to))]

PushActiveToo(q, entry, to) ==
  LET tk == taskKey(to, entry.Key) IN
  IF tk \in DOMAIN q.taskMap
  THEN LET id == q.taskMap[tk]
           q2 == [q EXCEPT !.tasks[id].Priority = entry.Priority]
           tq == q2.partners[to].taskQueue
       IN [q2 EXCEPT !.partners[to].taskQueue =
                        pqUpdate(tq, taskLt(q2), Index(tq, id))]
  ELSE PushNoLookup(q, entry, to)

Push(q, entry, to) ==
  LET q1 == IF to \in DOMAIN q.partners THEN q
            ELSE LET qp == [q EXCEPT !.partners = (to :> newActivePartner) @@ @]
                 IN [qp EXCEPT !.pQueue = pqPush(@, partnerLt(qp), to)]
      tk == taskKey(to, entry.Key)
  IN IF tk \in DOMAIN q1.taskMap
     THEN LET id == q1.taskMap[tk]
              q2 == [q1 EXCEPT !.tasks[id].Priority = entry.Priority]
              tq == q2.partners[to].taskQueue
          IN [q2 EXCEPT !.partners[to].taskQueue =
                           pqUpdate(tq, taskLt(q2), Index(tq, id))]
     ELSE IF entry.Key \in q1.partners[to].activeBlocks THEN q1
     ELSE LET id == q1.clock
              t  == [Key |-> entry.Key, Priority |-> entry.Priority,
                     Target |-> to, created |-> q1.clock, trash |-> FALSE]
              q2 == [q1 EXCEPT !.tasks = (id :> t) @@ @, !.clock = @ + 1]
              q3 == [q2 EXCEPT
                       !.partners[to].taskQueue = pqPush(@, taskLt(q2), id),
                       !.taskMap = (tk :> id) @@ @,
                       !.partners[to].requests = @ + 1]
          IN [q3 EXCEPT
                !.pQueue = pqUpdate(@, partnerLt(q3), Index(q3.pQueue, to))]

StartTaskNoCount(p, k) ==
  [p EXCEPT !.activeBlocks = @ \cup {k}]

StartTask(p, k) ==
  [p EXCEPT !.activeBlocks = @ \cup {k}, !.active = @ + 1]

\* Pop that yields the task on top whatever its trash flag
popTasksYieldAny(q, to) ==
  LET tq == q.partners[to].taskQueue IN
  IF Len(tq) = 0 THEN [q |-> q, out |-> NoTask]
  ELSE LET pp == pqPop(tq, taskLt(q))
           t  == q.tasks[pp.elem]
           q1 == [q EXCEPT !.partners[to].taskQueue = pp.h,
                           !.taskMap = Drop(@, taskKey(t.Target, t.Key)),
                           !.tasks = Drop(@, pp.elem)]
       IN [q |-> [q1 EXCEPT !.partners[to] = StartTask(@, t.Key),
                            !.partners[to].requests = @ - 1],
           out |-> t]

\* the loop of Pop over the task queue of the partner taken from pQueue
RECURSIVE popTasks(_, _)
popTasks(q, to) ==
  LET tq == q.partners[to].taskQueue IN
  IF Len(tq) = 0 THEN [q |-> q, out |-> NoTask]
  ELSE LET pp == pqPop(tq, taskLt(q))
           t  == q.tasks[pp.elem]
           q1 == [q EXCEPT !.partners[to].taskQueue = pp.h,
                           !.taskMap = Drop(@, taskKey(t.Target, t.Key)),
                           !.tasks = Drop(@, pp.elem)]
       IN IF t.trash THEN popTasks(q1, to)
          ELSE [q |-> [q1 EXCEPT
                         !.partners[to] = StartTask(@, t.Key),
                         !.partners[to].requests = @ - 1],
                out |-> t]

PopKeepPending(q) ==
  IF Len(q.pQueue) = 0 THEN [q |-> q, out |-> NoTask]
  ELSE LET pp == pqPop(q.pQueue, partnerLt(q))
           r  == popTasks([q EXCEPT !.pQueue = pp.h], pp.elem)
           rq == IF r.out = NoTask THEN r.q
                 ELSE [r.q EXCEPT !.partners[pp.elem].requests = @ + 1]
       IN [q |-> [rq EXCEPT !.pQueue = pqPush(@, partnerLt(rq), pp.elem)],
           out |-> r.out]

Pop(q) ==
  IF Len(q.pQueue) = 0 THEN [q |-> q, out |-> NoTask]
  ELSE LET pp == pqPop(q.pQueue, partnerLt(q))
           r  == popTasks([q EXCEPT !.pQueue = pp.h], pp.elem)
       IN [q |-> [r.q EXCEPT !.pQueue = pqPush(@, partnerLt(r.q), pp.elem)],
           out |-> r.out]

Remove(q, k, p) ==
  LET tk == taskKey(p, k) IN
  IF tk \in DOMAIN q.taskMap
  THEN [q EXCEPT !.tasks[q.taskMap[tk]].trash = TRUE,
                 !.partners[p].requests = @ - 1]
  ELSE q

TaskDone(p, k) ==
  [p EXCEPT !.activeBlocks = @ \ {k}, !.active = @ - 1]

\* a partner whose active counter never traps
trappedNever(p) == FALSE

\* TaskDone panics after the decrement when the counter is negative
trapped(p) == p.active < 0

\* the second half of a task's Done closure, under the lock of the queue
DoneUpdate(q, p) ==
  [q EXCEPT !.pQueue = pqUpdate(@, partnerLt(q), Index(q.pQueue, p))]

\* ------------------------------------------------------------------------
\* Program constants (bitswap.go, peermanager.go, workers.go)
\* ------------------------------------------------------------------------

kMaxPriority == 2147483647

sizeBatchRequestChan == 32

HasBlockBufferSize == 256

provideWorkers == 4

\* capacity of the four input channels of the peer manager
pmChanSize == 10

\* IPFS_BITSWAP_TASK_WORKERS (default 8): the number of task workers the
\* nodes of the model are configured with
TaskWorkerCount == 1

\* ------------------------------------------------------------------------
\* Bounds of the node and network model
\* ------------------------------------------------------------------------

\* API calls (GetBlocks, HasBlock) made on a node in one run
MaxCalls == 2

\* entries a producer finds at most in a channel of the peer manager when it
\* adds one (the peer manager loop keeps up with its producers)
MaxChan == 2

\* messages in flight in the network at once
MaxNet == 2

\* ------------------------------------------------------------------------
\* message: BitSwapMessage (a Full flag, wantlist entries by key, blocks).
\* A block is content-addressed: it is represented by its key.
\* ------------------------------------------------------------------------

Nil == [nil |-> TRUE]

Min(a, b) == IF a < b THEN a ELSE b

newMsg(full) == [full |-> full, wl |-> <<>>, blocks |-> {}]

AddEntry(m, k, pri) ==
  [m EXCEPT !.wl = (k :> [pri |-> pri, cancel |-> FALSE]) @@ @]

Cancel(m, k) ==
  [m EXCEPT !.wl = (k :> [pri |-> 0, cancel |-> TRUE]) @@ @]

AddBlock(m, b) == [m EXCEPT !.blocks = @ \cup {b}]

Empty(m) == DOMAIN m.wl = {} /\ m.blocks = {}

\* the message as it is written to the stream
wire(m) == [full |-> m.full, wl |-> m.wl, blocks |-> m.blocks]

\* ------------------------------------------------------------------------
\* wantlist: Key -> Priority
\* ------------------------------------------------------------------------

wlAdd(w, k, pri) ==
  IF k \in DOMAIN w THEN [w EXCEPT ![k] = IF pri > @ THEN pri ELSE @]
  ELSE (k :> pri) @@ w

wlRemove(w, k) == Drop(w, k)

\* ------------------------------------------------------------------------
\* notifications: the subscriptions of a node, by the id of the GetBlocks
\* call; want = keys not yet delivered, got = blocks delivered, in order
\* ------------------------------------------------------------------------

Subscribe(subs, id, keys) ==
  (id :> [want |-> keys, got |-> <<>>, open |-> keys # {}]) @@ subs

Publish(subs, b) ==
  [id \in DOMAIN subs |->
     IF subs[id].open /\ b \in subs[id].want
     THEN [want |-> subs[id].want \ {b},
           got  |-> Append(subs[id].got, b),
           open |-> subs[id].want # {b}]
     ELSE subs[id]]

Unsubscribe(subs, id) ==
  IF id \in DOMAIN subs THEN [subs EXCEPT ![id].open = FALSE] ELSE subs

Shutdown(subs) == [id \in DOMAIN subs |-> [subs[id] EXCEPT !.open = FALSE]]

\* ------------------------------------------------------------------------
\* peermanager.go: msgQueue and PeerManager
\* ------------------------------------------------------------------------

\* pc of the worker of a queue (runQueue): "idle" is the select on work and
\* done, "connect" the call of ConnectTo, "snap" the critical section,
\* "send" the sends of the snapshot (wlm, blks)
newMsgQueue ==
  [wlmsg |-> Nil, blocks |-> {}, pc |-> "idle", wlm |-> Nil, blks |-> {}]

\* A message is an object: the queues, the channel and the caller of the
\* peer manager hold references to it.  A held message carries the name of
\* its object in obj, and a change of the object shows in every holder.
held(pm) ==
  {pm.incoming[i].msg.obj : i \in DOMAIN pm.incoming}
    \cup (IF pm.msg = Nil THEN {} ELSE {pm.msg.obj})
    \cup {pm.peers[p].wlmsg.obj : p \in {q \in DOMAIN pm.peers : pm.peers[q].wlmsg # Nil}}
    \cup {pm.peers[p].wlm.obj : p \in {q \in DOMAIN pm.peers : pm.peers[q].wlm # Nil}}

\* bsmsg.New and the calls that fill the message: a new object
New(pm, m) ==
  [obj |-> CHOOSE n \in 1..(Cardinality(held(pm)) + 1) :
             n \notin held(pm) /\ \A j \in 1..(n - 1) : j \in held(pm),
   full |-> m.full, wl |-> m.wl, blocks |-> m.blocks]

\* the objects of messages m1 and m2 become m1 and m2
update(pm, m1, m2) ==
  LET fix(x) == IF x = Nil THEN x
                ELSE IF x.obj = m2.obj THEN m2
                ELSE IF x.obj = m1.obj THEN m1 ELSE x
  IN [pm EXCEPT
        !.incoming = [i \in DOMAIN pm.incoming |->
                        [pm.incoming[i] EXCEPT !.msg = fix(@)]],
        !.msg = fix(@),
        !.peers = [p \in DOMAIN pm.peers |->
                     [pm.peers[p] EXCEPT !.wlmsg = fix(@), !.wlm = fix(@)]]]

\* the pending message of queue mq after Cancel and AddEntry for the
\* entries of m
merged(mq, m) ==
  [mq.wlmsg EXCEPT !.wl =
     [k \in DOMAIN m.wl |->
        IF m.wl[k].cancel THEN [pri |-> 0, cancel |-> TRUE]
        ELSE [pri |-> m.wl[k].pri, cancel |-> FALSE]] @@ @]

mergedSwapped(mq, m) ==
  [mq.wlmsg EXCEPT !.wl =
     [k \in DOMAIN m.wl |->
        IF ~m.wl[k].cancel THEN [pri |-> 0, cancel |-> TRUE]
        ELSE [pri |-> m.wl[k].pri, cancel |-> FALSE]] @@ @]

AddMessageSwapped(pm, p, msg) ==
  LET m1  == [msg EXCEPT !.blocks = {}]
      pm1 == [pm EXCEPT !.peers[p].blocks = @ \cup msg.blocks]
  IN IF pm.peers[p].wlmsg = Nil \/ msg.full
     THEN [update(pm1, m1, m1) EXCEPT !.peers[p].wlmsg = m1]
     ELSE update(pm1, m1, mergedSwapped(pm.peers[p], m1))

AddMessageMergeFull(pm, p, msg) ==
  LET m1  == [msg EXCEPT !.blocks = {}]
      pm1 == [pm EXCEPT !.peers[p].blocks = @ \cup msg.blocks]
  IN IF pm.peers[p].wlmsg = Nil
     THEN [update(pm1, m1, m1) EXCEPT !.peers[p].wlmsg = m1]
     ELSE update(pm1, m1, merged(pm.peers[p], m1))

\* AddMessage on the queue of p, up to the unlock; the signal on work
\* follows in its own step.  msg.ClearBlocks() changes the object of msg
\* (m1), the merge that of mq.wlmsg
AddMessage(pm, p, msg) ==
  LET m1  == [msg EXCEPT !.blocks = {}]
      pm1 == [pm EXCEPT !.peers[p].blocks = @ \cup msg.blocks]
  IN IF pm.peers[p].wlmsg = Nil \/ msg.full
     THEN [update(pm1, m1, m1) EXCEPT !.peers[p].wlmsg = m1]
     ELSE update(pm1, m1, merged(pm.peers[p], m1))

\* the non-blocking send on work: received only by a worker in its select
Signal(mq) == IF mq.pc = "idle" THEN [mq EXCEPT !.pc = "connect"] ELSE mq

\* run: "select" (the loop waits on its channels), "signal" (an AddMessage
\* has unlocked the queue of peer sig and is about to signal it; rest are
\* the queues a broadcast of msg has still to reach), "done" (returned)
\* stopped: the workers whose done channel is closed and that have not
\* returned yet, each with its queue, which the map no longer holds
NewPeerManager ==
  [incoming |-> <<>>, connect |-> <<>>, disconnect |-> <<>>,
   cancels |-> <<>>, peers |-> <<>>, stopped |-> <<>>,
   run |-> "select", sig |-> Nil, rest |-> {}, msg |-> Nil]

startPeerHandler(pm, p) ==
  IF p \in DOMAIN pm.peers THEN pm
  ELSE [pm EXCEPT !.peers = (p :> newMsgQueue) @@ @]

\* close(pq.done) and delete(pm.peers, p)
stopPeerHandler(pm, p) ==
  IF p \notin DOMAIN pm.peers THEN pm
  ELSE [pm EXCEPT !.peers = Drop(@, p),
                  !.stopped = Append(@, [p |-> p, mq |-> pm.peers[p]])]

Send(pm, to, msg) ==
  [pm EXCEPT !.incoming = Append(@, [to |-> to, msg |-> msg])]

Broadcast(pm, msg) ==
  [pm EXCEPT !.incoming = Append(@, [to |-> "", msg |-> msg])]

Connected(pm, p) == [pm EXCEPT !.connect = Append(@, p)]

Disconnected(pm, p) == [pm EXCEPT !.disconnect = Append(@, p)]

CancelBlock(pm, p, k) ==
  [pm EXCEPT !.cancels = Append(@, [who |-> p, blk |-> k])]

\* ------------------------------------------------------------------------
\* A bitswap node (bitswap.go New): block store, wantlist, notifications,
\* channels, workers, peer manager and decision engine
\* ------------------------------------------------------------------------

\* clientWorker: pc "select" waits on batchRequests and the context, "run"
\* serves the request keys of GetBlocks call `call`; todo holds what is
\* left of it: "bcast" (go wantNewBlocks) and "prov" (sendWantlistToPeers)
\* provideCollector: toProvide, nextKey, keysOut (TRUE: keysOut is the
\* provideKeys channel, FALSE: nil)
\* alive: the worker goroutines that have not returned
newNode ==
  [closing |-> FALSE, closed |-> FALSE, panicked |-> FALSE,
   blockstore |-> {}, wantlist |-> <<>>, notifications |-> <<>>,
   batchRequests |-> <<>>, newBlocks |-> <<>>,
   cw |-> [pc |-> "select", keys |-> <<>>, call |-> 0, todo |-> {}],
   pcoll |-> [toProvide |-> <<>>, nextKey |-> Nil, keysOut |-> FALSE],
   pm |-> NewPeerManager,
   ledgers |-> <<>>, prq |-> newPRQ,
   alive |-> [client |-> TRUE, task |-> TaskWorkerCount,
              rebroadcast |-> TRUE, collector |-> TRUE,
              provide |-> provideWorkers]]

Range(f) == {f[x] : x \in DOMAIN f}

\* the Full message of all entries of the wantlist (sendWantlistToPeers,
\* sendWantlistToProviders)
wantlistMsg(w) ==
  [full |-> TRUE,
   wl |-> [k \in DOMAIN w |-> [pri |-> w[k], cancel |-> FALSE]],
   blocks |-> {}]

\* Go's int has 64 bits on the usual platforms: a wide integer is
\* hi * 2^31 + lo with lo in 0 .. 2^31 - 1
wide(n) == [hi |-> 0, lo |-> n]

wideSub(a, b) ==
  IF a.lo >= b.lo THEN [hi |-> a.hi - b.hi, lo |-> a.lo - b.lo]
  ELSE [hi |-> a.hi - b.hi - 1, lo |-> ((a.lo - b.lo) + kMaxPriority) + 1]

wideNegative(a) == a.hi < 0

\* the wide integer as an int32 (the type of a priority is int)
narrow(a) == a.lo

\* the priority clientWorker and wantNewBlocks give the key at index i
\* (from 0) of a request: kMaxPriority-i
wantPriority(i) == wideSub(wide(kMaxPriority), i)

\* the message of wantNewBlocks: one entry per key, later indexes overwrite
wantNewBlocksMsg(keys) ==
  [full |-> FALSE,
   wl |-> [k \in Range(keys) |->
             [pri |-> narrow(wantPriority(wide(
                        (CHOOSE i \in DOMAIN keys :
                           keys[i] = k /\ \A j \in DOMAIN keys :
                                            keys[j] = k => j <= i) - 1))),
              cancel |-> FALSE]],
   blocks |-> {}]

\* the message of cancelBlocks
cancelMsg(ks) ==
  [full |-> FALSE, wl |-> [k \in ks |-> [pri |-> 0, cancel |-> TRUE]],
   blocks |-> {}]

blockMsg(b) == [full |-> FALSE, wl |-> <<>>, blocks |-> {b}]

\* what a producer may find in a channel of the peer manager and still add j
\* entries: the capacity, and while the loop runs also the bound MaxChan
RoomFor(nd, ch, j) ==
  Len(ch) + j <= (IF nd.pm.run = "done" THEN pmChanSize
                  ELSE Min(pmChanSize, MaxChan + j - 1))

\* ------------------------------------------------------------------------
\* decision engine: ledgers (the wantlist of each partner) and the peer
\* request queue
\* ------------------------------------------------------------------------

\* the stamps of the tasks are times: with no task left the clock restarts
Renorm(q) == IF DOMAIN q.tasks = {} THEN [q EXCEPT !.clock = 1] ELSE q

ledgerOf(nd, p) == IF p \in DOMAIN nd.ledgers THEN nd.ledgers[p] ELSE <<>>

RECURSIVE receiveEntries(_, _, _, _)
receiveEntries(nd, p, wl, todo) ==
  IF todo = {} THEN nd
  ELSE LET k == CHOOSE x \in todo : TRUE
           l == ledgerOf(nd, p)
           n1 == IF wl[k].cancel
                 THEN [nd EXCEPT !.ledgers = (p :> Drop(l, k)) @@ @,
                                 !.prq = Renorm(Remove(@, k, p))]
                 ELSE [nd EXCEPT !.ledgers = (p :> ((k :> wl[k].pri) @@ l)) @@ @,
                                 !.prq = IF k \in nd.blockstore
                                         THEN Push(@, [Key |-> k,
                                                       Priority |-> wl[k].pri], p)
                                         ELSE @]
       IN receiveEntries(n1, p, wl, todo \ {k})

MessageReceived(nd, p, m) ==
  LET n0 == IF m.full THEN [nd EXCEPT !.ledgers = (p :> <<>>) @@ @]
            ELSE [nd EXCEPT !.ledgers = (p :> ledgerOf(nd, p)) @@ @]
  IN receiveEntries(n0, p, m.wl, DOMAIN m.wl)

RECURSIVE sentBlocks(_, _, _)
sentBlocks(nd, p, todo) ==
  IF todo = {} THEN nd
  ELSE LET b == CHOOSE x \in todo : TRUE
       IN sentBlocks([nd EXCEPT !.ledgers = (p :> Drop(ledgerOf(nd, p), b)) @@ @,
                                !.prq = Renorm(Remove(@, b, p))],
                     p, todo \ {b})

MessageSent(nd, p, m) ==
  sentBlocks([nd EXCEPT !.ledgers = (p :> ledgerOf(nd, p)) @@ @], p, m.blocks)

\* ------------------------------------------------------------------------
\* bitswap.go
\* ------------------------------------------------------------------------

\* send: pm.Send, then engine.MessageSent
send(nd, p, m) == MessageSent([nd EXCEPT !.pm = Send(@, p, m)], p, m)

RECURSIVE sendToPeers(_, _, _)
sendToPeers(nd, ps, m) ==
  IF ps = {} THEN nd
  ELSE LET p == CHOOSE x \in ps : TRUE
       IN sendToPeers(send(nd, p, m), ps \ {p}, m)

\* sendWantlistToPeers
sendWantlistToPeers(nd, ps) ==
  sendToPeers(nd, ps, New(nd.pm, wantlistMsg(nd.wantlist)))

PeerConnected(nd, p) ==
  sendWantlistToPeers([nd EXCEPT !.pm = Connected(@, p)], {p})

\* HasBlock after the check of Closing, step by step
hbPut(nd, b) == [nd EXCEPT !.blockstore = @ \cup {b}]

hbRemove(nd, b) == [nd EXCEPT !.wantlist = wlRemove(@, b)]

hbPublish(nd, b) == [nd EXCEPT !.notifications = Publish(@, b)]

hbNewBlocks(nd, b) == [nd EXCEPT !.newBlocks = Append(@, b)]

\* HasBlock with the publication before the Put
hbOrderPublishFirst == <<"publish", "put", "remove", "newBlocks">>

\* the order of the steps of HasBlock
hbOrder == <<"put", "remove", "publish", "newBlocks">>

hbStep(nd, b, st) ==
  CASE st = "put" -> hbPut(nd, b)
    [] st = "remove" -> hbRemove(nd, b)
    [] st = "publish" -> hbPublish(nd, b)
    [] st = "newBlocks" -> hbNewBlocks(nd, b)

\* a call that skips the check
refusedNever(nd) == FALSE

\* is a call of HasBlock or GetBlocks refused: the check of process.Closing()
refused(nd) == nd.closing

\* ------------------------------------------------------------------------
\* State
\* ------------------------------------------------------------------------

VARIABLES
  prq,        \* the peer request queue
  inflight,   \* tasks Pop yielded whose Done has not finished
  panicked,   \* the process died in a panic
  node,       \* the bitswap nodes, by peer id
  net,        \* the messages in flight (a bag of [from, to, msg])
  routing,    \* the providers of each key
  calls,      \* the calls of GetBlocks and HasBlock made so far, in order
  online,     \* the peers whose hosts are up
  batch       \* a key of a batch request: its index and its priority

prqVars == <<prq, inflight, panicked>>

netVars == <<node, net, routing, calls, online>>

vars ==
  <<prq, inflight, panicked, node, net, routing, calls, online, batch>>

\* ------------------------------------------------------------------------
\* The peer request queue driven by its callers: the engine pushes and
\* removes on incoming wantlist entries, its task loop pops, and a task
\* worker calls Done once for each task it was handed.
\* ------------------------------------------------------------------------

InitPRQ ==
  /\ prq = newPRQ
  /\ inflight = {}
  /\ panicked = FALSE
  /\ node = <<>>
  /\ net = <<>>
  /\ routing = <<>>
  /\ calls = <<>>
  /\ online = {}
  /\ batch = Nil

DoPush(e, to) ==
  /\ ~panicked
  /\ (taskKey(to, e.Key) \notin DOMAIN prq.taskMap
        /\ (to \in DOMAIN prq.partners
              => e.Key \notin prq.partners[to].activeBlocks))
        => prq.clock <= MaxTasks
  /\ prq' = Push(prq, e, to)
  /\ UNCHANGED <<inflight, panicked, netVars, batch>>

DoPop ==
  /\ ~panicked
  /\ LET r == Pop(prq) IN
       /\ prq' = r.q
       /\ inflight' = IF r.out = NoTask THEN inflight
                      ELSE inflight \cup {[task |-> r.out, stage |-> "sending"]}
  /\ UNCHANGED <<panicked, netVars, batch>>

DoRemove(k, p) ==
  /\ ~panicked
  /\ p \in DOMAIN prq.partners => prq.partners[p].requests > -MaxOverCancel
  /\ prq' = Remove(prq, k, p)
  /\ UNCHANGED <<inflight, panicked, netVars, batch>>

\* Done, first half: partner.TaskDone(entry.Key) under the partner's lock
DoTaskDone(f) ==
  /\ ~panicked
  /\ f \in inflight /\ f.stage = "sending"
  /\ LET p == TaskDone(prq.partners[f.task.Target], f.task.Key) IN
       /\ prq' = [prq EXCEPT !.partners[f.task.Target] = p]
       /\ panicked' = trapped(p)
  /\ inflight' = (inflight \ {f}) \cup {[f EXCEPT !.stage = "update"]}
  /\ UNCHANGED <<netVars, batch>>

\* Done, second half: pQueue.Update(partner.Index()) under the queue's lock
DoDoneUpdate(f) ==
  /\ ~panicked
  /\ f \in inflight /\ f.stage = "update"
  /\ prq' = DoneUpdate(prq, f.task.Target)
  /\ inflight' = inflight \ {f}
  /\ UNCHANGED <<panicked, netVars, batch>>

NextPRQ ==
  \/ \E k \in Keys, pr \in Prios, to \in Peers :
        DoPush([Key |-> k, Priority |-> pr], to)
  \/ DoPop
  \/ \E k \in Keys, p \in Peers : DoRemove(k, p)
  \/ \E f \in inflight : DoTaskDone(f)
  \/ \E f \in inflight : DoDoneUpdate(f)

SpecPRQ == InitPRQ /\ [][NextPRQ]_vars

\* The same queue with a caller that invokes the Done of a task again
\* while its first invocation has not finished: partner.TaskDone runs once
\* more for the same key
DoTaskDoneAgain(f) ==
  /\ ~panicked
  /\ f \in inflight /\ f.stage = "update"
  /\ LET p == TaskDone(prq.partners[f.task.Target], f.task.Key) IN
       /\ prq' = [prq EXCEPT !.partners[f.task.Target] = p]
       /\ panicked' = trapped(p)
  /\ UNCHANGED <<inflight, netVars, batch>>

NextDone ==
  \/ NextPRQ
  \/ \E f \in inflight : DoTaskDoneAgain(f)

SpecDone == InitPRQ /\ [][NextDone]_vars

\* ------------------------------------------------------------------------
\* Properties of the peer request queue
\* ------------------------------------------------------------------------

\* the tasks queued for (p, k), as (partner queue, position) pairs
QueuedTasks(p, k) ==
  {pos \in {pp \in (DOMAIN prq.partners) \X (1..MaxTasks) :
              pp[2] <= Len(prq.partners[pp[1]].taskQueue)} :
     LET t == prq.tasks[prq.partners[pos[1]].taskQueue[pos[2]]]
     IN t.Target = p /\ t.Key = k}

\* C9: for any sequence of Push, Pop, Remove and Done, at most one task
\* exists in the scheduler for a (peer, key) pair: the per-peer task queues
\* hold at most one task for it, and the task map holds exactly the queued
\* tasks, each under its own key.
C9_AtMostOneTask ==
  /\ \A p \in Peers, k \in Keys : Cardinality(QueuedTasks(p, k)) <= 1
  /\ \A p \in Peers, k \in Keys :
       (taskKey(p, k) \in DOMAIN prq.taskMap) <=> (QueuedTasks(p, k) # {})
  /\ \A tk \in DOMAIN prq.taskMap :
       /\ prq.taskMap[tk] \in DOMAIN prq.tasks
       /\ LET t == prq.tasks[prq.taskMap[tk]] IN
            /\ taskKey(t.Target, t.Key) = tk
            /\ \E i \in 1..Len(prq.partners[t.Target].taskQueue) :
                 prq.partners[t.Target].taskQueue[i] = prq.taskMap[tk]

\* a task for (p, k) was popped and its Done is half way (TaskDone has run,
\* the update of pQueue has not), and a second task for the same (p, k) is
\* already queued: Push, Pop and Done have acted on one pair
C9_Witness ==
  \E f \in inflight :
    /\ f.stage = "update"
    /\ QueuedTasks(f.task.Target, f.task.Key) # {}

\* C10: whenever Pop yields a task for (p, k), pending(p) is exactly one
\* less than before that Pop and k is in the active set of p after it; k
\* stays in the active set of p until the task's Done fires.
C10_PopAccounting ==
  /\ [][\A f \in inflight' \ inflight :
          f.stage = "sending" =>
            /\ prq'.partners[f.task.Target].requests
                 = prq.partners[f.task.Target].requests - 1
            /\ f.task.Key \in prq'.partners[f.task.Target].activeBlocks]_vars
  /\ [](\A f \in inflight :
          f.stage = "sending" =>
            f.task.Key \in prq.partners[f.task.Target].activeBlocks)

\* a task of a peer is in flight, its Done has not fired, and the same peer
\* still has a live task pending
C10_Witness ==
  \E f \in inflight :
    /\ f.stage = "sending"
    /\ f.task.Key \in prq.partners[f.task.Target].activeBlocks
    /\ prq.partners[f.task.Target].requests = 1
    /\ Len(prq.partners[f.task.Target].taskQueue) = 1

\* the partner the next Pop takes from pQueue: the top of the heap
popSelects(q) == q.pQueue[1]

\* the tasks queued for partner p that are not trashed
liveTasks(q, p) ==
  {i \in 1..Len(q.partners[p].taskQueue) :
     ~q.tasks[q.partners[p].taskQueue[i]].trash}

\* C11 (as stated): Pop never selects a peer whose pending count is 0, unless
\* that peer is the only peer in the scheduler and has no live task, and then
\* Pop returns none: in every state the peer the next Pop selects is such.
C11_PopSkipsIdlePeers ==
  (Len(prq.pQueue) > 0 /\ prq.partners[popSelects(prq)].requests = 0)
    => /\ DOMAIN prq.partners = {popSelects(prq)}
       /\ liveTasks(prq, popSelects(prq)) = {}
       /\ Pop(prq).out = NoTask

\* Pop is about to select a peer with nothing pending while another peer
\* has a live task queued
C11_IdlePeerSelected ==
  /\ Len(prq.pQueue) > 0
  /\ prq.partners[popSelects(prq)].requests = 0
  /\ \E p \in DOMAIN prq.partners \ {popSelects(prq)} : liveTasks(prq, p) # {}
  /\ Pop(prq).out = NoTask

\* the tasks Pop yielded for peer p whose Done has not fired
sending(p) == {f \in inflight : f.stage = "sending" /\ f.task.Target = p}

RECURSIVE sumActive(_)
sumActive(ps) ==
  IF ps = {} THEN 0
  ELSE LET p == CHOOSE x \in ps : TRUE
       IN prq.partners[p].active + sumActive(ps \ {p})

\* C12: for every peer p, active(p) is the number of tasks Pop yielded for
\* p whose Done has not fired, and the active key set of p is the set of
\* keys of those tasks; the sum of active over all peers is the number of
\* outbound blocks in flight.
C12_ActiveIsInFlight ==
  /\ \A p \in DOMAIN prq.partners :
       /\ prq.partners[p].active = Cardinality(sending(p))
       /\ prq.partners[p].activeBlocks = {f.task.Key : f \in sending(p)}
  /\ sumActive(DOMAIN prq.partners)
       = Cardinality({f \in inflight : f.stage = "sending"})

\* Pop has yielded two tasks: the Done of one has fired, the other is still
\* in flight and counted
C12_Witness ==
  /\ \E f \in inflight : f.stage = "update"
  /\ \E f \in inflight :
       f.stage = "sending" /\ prq.partners[f.task.Target].active = 1

\* C20: no key is at the same time in the active set of a peer p and the
\* key of a queued task of p that is not trashed; a Push for a key in the
\* active set of p creates no task and leaves pending(p) and the task map
\* unchanged.
C20_ActiveNotQueued ==
  \A p \in DOMAIN prq.partners : \A k \in prq.partners[p].activeBlocks :
    /\ \A i \in liveTasks(prq, p) :
         prq.tasks[prq.partners[p].taskQueue[i]].Key # k
    /\ \A pr \in Prios :
         LET q == Push(prq, [Key |-> k, Priority |-> pr], p) IN
           /\ q.tasks = prq.tasks
           /\ q.taskMap = prq.taskMap
           /\ q.partners[p].requests = prq.partners[p].requests
           /\ q.partners[p].taskQueue = prq.partners[p].taskQueue

\* a peer has one key active and a live task queued for another key
C20_Witness ==
  \E p \in DOMAIN prq.partners :
    /\ prq.partners[p].activeBlocks # {}
    /\ liveTasks(prq, p) # {}

\* the task on top of the task queue of partner p
topTask(q, p) == q.tasks[q.partners[p].taskQueue[1]]

\* C21: a task that Remove has trashed stays trashed while it is queued and
\* is never yielded by Pop; when Pop finds it on top of the task queue of
\* the peer it serves, it takes it off the queue, deletes it from the task
\* map and goes on: if that peer has a live task, Pop yields a live task of
\* that peer.
C21_LazyCancellation ==
  /\ [][\A id \in DOMAIN prq.tasks :
          prq.tasks[id].trash =>
            /\ id \in DOMAIN prq'.tasks => prq'.tasks[id].trash
            /\ \A f \in inflight' \ inflight : f.task.created # id]_vars
  /\ [](\A f \in inflight : ~f.task.trash)
  /\ [](Len(prq.pQueue) > 0 =>
          LET p == popSelects(prq)
              r == Pop(prq)
          IN (Len(prq.partners[p].taskQueue) > 0 /\ topTask(prq, p).trash) =>
               /\ topTask(prq, p).created \notin DOMAIN r.q.tasks
               /\ taskKey(p, topTask(prq, p).Key) \notin DOMAIN r.q.taskMap
               /\ r.out = NoTask \/ (~r.out.trash /\ r.out.Target = p)
               /\ liveTasks(prq, p) # {} => r.out # NoTask)

\* Remove has trashed the task on top of the queue of the peer that Pop
\* serves next, and a live task of that peer is queued behind it
C21_Witness ==
  /\ Len(prq.pQueue) > 0
  /\ Len(prq.partners[popSelects(prq)].taskQueue) = 2
  /\ topTask(prq, popSelects(prq)).trash
  /\ liveTasks(prq, popSelects(prq)) # {}
  /\ Pop(prq).out # NoTask

\* C22: Pop returns none only when no peer has a live queued task: in
\* every state reached by Push, Pop, Remove and Done in which some peer has
\* a task queued that is not trashed, the next Pop yields a task.
C22_PopYieldsLiveTask ==
  (\E p \in DOMAIN prq.partners : liveTasks(prq, p) # {})
    => Pop(prq).out # NoTask

\* a peer has a live task queued and the next Pop returns none
C22_NoneWithLiveTask ==
  /\ \E p \in DOMAIN prq.partners :
       liveTasks(prq, p) # {} /\ prq.partners[p].requests > 0
  /\ Pop(prq).out = NoTask

\* the task of (p, k) is queued and trashed and k is not active for p
cancelledQueued(q, p, k) ==
  /\ taskKey(p, k) \in DOMAIN q.taskMap
  /\ q.tasks[q.taskMap[taskKey(p, k)]].trash
  /\ k \notin q.partners[p].activeBlocks

\* C23: a want that is cancelled and then re-added is served: a Push for
\* (p, k) while the task of (p, k) is queued and trashed, and k is not
\* active for p, leaves a live task for (p, k) in the queue of p, which a
\* later Pop can yield, and pending(p) counts it.
C23_ReAddedIsServed ==
  [][\A p \in Peers, k \in Keys, pr \in Prios :
       (/\ p \in DOMAIN prq.partners
        /\ cancelledQueued(prq, p, k)
        /\ prq' = Push(prq, [Key |-> k, Priority |-> pr], p)
        /\ inflight' = inflight)
         => /\ taskKey(p, k) \in DOMAIN prq'.taskMap
            /\ ~prq'.tasks[prq'.taskMap[taskKey(p, k)]].trash
            /\ prq'.partners[p].requests = prq.partners[p].requests + 1]_vars

\* a task was pushed with one priority, trashed by Remove and pushed again
\* with another: it is still trashed, and the only task of its peer
C23_ReAddedStillTrash ==
  \E p \in DOMAIN prq.partners :
    /\ cancelledQueued(prq, p, "k1")
    /\ prq.partners[p].requests = 0
    /\ Len(prq.partners[p].taskQueue) = 1
    /\ prq.clock = 2
    /\ Pop(prq).out = NoTask

\* the tasks that Pop yields in this step
yielded == {f.task : f \in {g \in inflight' \ inflight : g.stage = "sending"}}

\* the live tasks that stay queued for peer p after this step
liveAfter(p) ==
  {prq'.tasks[prq'.partners[p].taskQueue[i]] : i \in liveTasks(prq', p)}

\* a Push for a queued task gives the task the priority of its entry
pushSetsPriority ==
  \A p \in DOMAIN prq.partners, k \in Keys, pr \in Prios :
    taskKey(p, k) \in DOMAIN prq.taskMap =>
      Push(prq, [Key |-> k, Priority |-> pr], p)
        .tasks[prq.taskMap[taskKey(p, k)]].Priority = pr

\* C29 (as stated): within one peer, Pop yields the live tasks in
\* descending priority, each with the priority of the latest Push for its
\* key, and tasks of equal priority in the order of their first Push: no
\* live task that stays queued for the peer has a higher priority than
\* the task yielded, or the same priority and an earlier creation.
C29_PriorityThenFIFO ==
  /\ []pushSetsPriority
  /\ [][\A t \in yielded : \A u \in liveAfter(t.Target) :
          \/ u.Priority < t.Priority
          \/ u.Priority = t.Priority /\ t.created < u.created]_vars

\* C29 (amended): within one peer, Pop yields the live tasks in descending
\* priority, each with the priority of the latest Push for its key: no
\* live task that stays queued for the peer has a higher priority than
\* the task yielded.  The order among tasks of equal priority is the
\* heap's and need not be that of their first Push.
C29_PriorityDescending ==
  /\ []pushSetsPriority
  /\ [][\A t \in yielded : \A u \in liveAfter(t.Target) :
          u.Priority <= t.Priority]_vars

\* Pop has yielded a task of a peer while an older live task of the same
\* priority stays queued for that peer
C29_Witness ==
  \E f \in inflight :
    /\ f.stage = "sending"
    /\ \E i \in liveTasks(prq, f.task.Target) :
         LET u == prq.tasks[prq.partners[f.task.Target].taskQueue[i]]
         IN u.Priority = f.task.Priority /\ u.created < f.task.created

\* C30: a TaskDone that would drive the active counter of a peer below
\* zero traps: in every state in which the process has not panicked the
\* active counter of every peer is at least 0, also when the Done of a
\* task is invoked more than once; the counter never passes -1.
C30_NegativeActiveTraps ==
  \A p \in DOMAIN prq.partners :
    /\ ~panicked => prq.partners[p].active >= 0
    /\ prq.partners[p].active >= -1

\* the Done of a task was invoked twice and the second TaskDone has
\* trapped
C30_Witness ==
  /\ panicked
  /\ \E f \in inflight :
       f.stage = "update" /\ prq.partners[f.task.Target].active = -1

\* ------------------------------------------------------------------------
\* The API of a node: GetBlocks and HasBlock are calls of several steps,
\* each call with a context of its own
\* ------------------------------------------------------------------------

\* the nodes run in one process: a panic in any goroutine ends it
Running(n) == n \in DOMAIN node /\ \A m \in DOMAIN node : ~node[m].panicked

\* the names of the message objects, in the order the peer manager holds
\* them: in the channel, in the broadcast at hand, in the queues
RECURSIVE queueRefs(_, _)
queueRefs(pm, ps) ==
  IF ps = {} THEN <<>>
  ELSE LET p == CHOOSE x \in ps : TRUE
           r(x) == IF x = Nil THEN <<>> ELSE <<x.obj>>
       IN r(pm.peers[p].wlmsg) \o r(pm.peers[p].wlm)
            \o queueRefs(pm, ps \ {p})

refs(pm) ==
  [i \in DOMAIN pm.incoming |-> pm.incoming[i].msg.obj]
    \o (IF pm.msg = Nil THEN <<>> ELSE <<pm.msg.obj>>)
    \o queueRefs(pm, DOMAIN pm.peers)

\* an object is named by the place of the first reference to it in refs:
\* a name means nothing but which references are to the same object
canon(pm) ==
  LET rs == refs(pm)
      name(o) == CHOOSE i \in DOMAIN rs :
                   rs[i] = o /\ \A j \in 1..(i - 1) : rs[j] # o
      fix(x) == IF x = Nil THEN x ELSE [x EXCEPT !.obj = name(@)]
  IN IF rs = <<>> THEN pm ELSE
     [pm EXCEPT
        !.incoming = [i \in DOMAIN pm.incoming |->
                        [pm.incoming[i] EXCEPT !.msg = fix(@)]],
        !.msg = fix(@),
        !.peers = [p \in DOMAIN pm.peers |->
                     [pm.peers[p] EXCEPT !.wlmsg = fix(@), !.wlm = fix(@)]]]

SetNode(n, nd) == node' = [node EXCEPT ![n] = [nd EXCEPT !.pm = canon(@)]]

\* the keys a HasBlock on node n has returned nil for
hasReturned(n) ==
  {calls[i].keys[1] : i \in {j \in DOMAIN calls :
      /\ calls[j].node = n /\ calls[j].op = "HasBlock"
      /\ calls[j].pc = "done" /\ calls[j].ret = "nil"}}

\* a call and what held when it was made: afterClose (Close had returned),
\* had (the keys a HasBlock on the same node had returned nil for), held
\* (the same on the other nodes), stored (the blocks in some node's store)
newCall(n, op, keys) ==
  [node |-> n, op |-> op, keys |-> keys, pc |-> "done", step |-> 0,
   ret |-> "closed", did |-> {}, ctxDone |-> FALSE,
   afterClose |-> node[n].closed, had |-> hasReturned(n),
   held |-> UNION {hasReturned(m) : m \in DOMAIN node \ {n}},
   stored |-> UNION {node[m].blockstore : m \in DOMAIN node}]

\* GetBlocks up to Subscribe
GetBlocks(n, keys) ==
  /\ Running(n) /\ Len(calls) < MaxCalls
  /\ IF refused(node[n])
     THEN /\ calls' = Append(calls, newCall(n, "GetBlocks", keys))
          /\ UNCHANGED node
     ELSE /\ calls' = Append(calls, [newCall(n, "GetBlocks", keys) EXCEPT
                                       !.pc = "enqueue", !.ret = "",
                                       !.did = {"subscribe"}])
          /\ SetNode(n, [node[n] EXCEPT !.notifications =
                           Subscribe(@, Len(calls) + 1, Range(keys))])
  /\ UNCHANGED <<prqVars, batch, net, routing, online>>

\* GetBlocks: the select on batchRequests and ctx.Done()
GetBlocksEnqueue(id) ==
  LET c == calls[id] IN
  /\ c.op = "GetBlocks" /\ c.pc = "enqueue" /\ Running(c.node)
  /\ \/ /\ Len(node[c.node].batchRequests) < sizeBatchRequestChan
        /\ SetNode(c.node, [node[c.node] EXCEPT !.batchRequests =
                              Append(@, [keys |-> c.keys, call |-> id])])
        /\ calls' = [calls EXCEPT ![id].pc = "wait", ![id].ret = "nil",
                                  ![id].did = @ \cup {"enqueue"}]
     \/ /\ c.ctxDone
        /\ calls' = [calls EXCEPT ![id].pc = "done", ![id].ret = "ctx"]
        /\ UNCHANGED node
  /\ UNCHANGED <<prqVars, batch, net, routing, online>>

\* the context of a call ends: its subscription is closed
CtxDone(id) ==
  LET c == calls[id] IN
  /\ ~c.ctxDone /\ c.pc # "done" /\ Running(c.node)
  /\ calls' = [calls EXCEPT ![id].ctxDone = TRUE]
  /\ SetNode(c.node, [node[c.node] EXCEPT !.notifications = Unsubscribe(@, id)])
  /\ UNCHANGED <<prqVars, batch, net, routing, online>>

\* HasBlock up to the check of Closing
HasBlock(n, b) ==
  /\ Running(n) /\ Len(calls) < MaxCalls
  /\ calls' = Append(calls,
                IF refused(node[n]) THEN newCall(n, "HasBlock", <<b>>)
                ELSE [newCall(n, "HasBlock", <<b>>) EXCEPT
                        !.pc = "steps", !.step = 1, !.ret = ""])
  /\ UNCHANGED <<prqVars, batch, node, net, routing, online>>

\* HasBlock: Put, wantlist.Remove, Publish and the select on newBlocks and
\* ctx.Done(); Put may fail
HasBlockStep(id) ==
  LET c  == calls[id]
      b  == c.keys[1]
      st == hbOrder[c.step]
      nx == IF c.step = Len(hbOrder)
            THEN [c EXCEPT !.pc = "done", !.ret = "nil", !.did = @ \cup {st}]
            ELSE [c EXCEPT !.step = @ + 1, !.did = @ \cup {st}]
  IN
  /\ c.op = "HasBlock" /\ c.pc = "steps" /\ Running(c.node)
  /\ \/ /\ st = "newBlocks" => Len(node[c.node].newBlocks) < HasBlockBufferSize
        /\ SetNode(c.node, hbStep(node[c.node], b, st))
        /\ calls' = [calls EXCEPT ![id] = nx]
     \/ /\ st = "put"
        /\ calls' = [calls EXCEPT ![id].pc = "done", ![id].ret = "put"]
        /\ UNCHANGED node
     \/ /\ st = "newBlocks" /\ c.ctxDone
        /\ calls' = [calls EXCEPT ![id].pc = "done", ![id].ret = "ctx"]
        /\ UNCHANGED node
  /\ UNCHANGED <<prqVars, batch, net, routing, online>>

\* Close: process.Close() closes Closing() and cancels the context
Close(n) ==
  /\ Running(n) /\ ~node[n].closing
  /\ SetNode(n, [node[n] EXCEPT !.closing = TRUE])
  /\ UNCHANGED <<prqVars, batch, net, routing, calls, online>>

\* the goroutines started with px.Go have all returned
childrenDone(nd) ==
  /\ ~nd.alive.client /\ nd.alive.task = 0 /\ ~nd.alive.rebroadcast
  /\ ~nd.alive.collector /\ nd.alive.provide = 0

\* Close returns: the children are done and the teardown (the shutdown of
\* the notifications) has run
CloseReturn(n) ==
  /\ Running(n) /\ node[n].closing /\ ~node[n].closed
  /\ childrenDone(node[n])
  /\ SetNode(n, [node[n] EXCEPT !.closed = TRUE,
                                !.notifications = Shutdown(@)])
  /\ UNCHANGED <<prqVars, batch, net, routing, calls, online>>

\* ------------------------------------------------------------------------
\* workers.go
\* ------------------------------------------------------------------------

RECURSIVE addWants(_, _, _)
addWants(w, keys, i) ==
  IF i > Len(keys) THEN w
  ELSE addWants(wlAdd(w, keys[i], narrow(wantPriority(wide(i - 1)))),
                keys, i + 1)

\* clientWorker: a request is received and its keys are added to the
\* wantlist
clientWorkerTake(n) ==
  LET nd == node[n] IN
  /\ Running(n) /\ nd.alive.client /\ nd.cw.pc = "select"
  /\ nd.batchRequests # <<>>
  /\ LET req == Head(nd.batchRequests)
         n1  == [nd EXCEPT !.batchRequests = Tail(@)]
     IN /\ SetNode(n, IF req.keys = <<>> THEN n1
                      ELSE [n1 EXCEPT
                              !.wantlist = addWants(@, req.keys, 1),
                              !.cw = [pc |-> "run", keys |-> req.keys,
                                      call |-> req.call,
                                      todo |-> {"bcast", "prov"}]])
        /\ calls' = [calls EXCEPT ![req.call].did = @ \cup {"want"}]
  /\ UNCHANGED <<prqVars, batch, net, routing, online>>

cwDone(cw, part) ==
  IF cw.todo = {part}
  THEN [pc |-> "select", keys |-> <<>>, call |-> 0, todo |-> {}]
  ELSE [cw EXCEPT !.todo = @ \ {part}]

\* clientWorker: the goroutine of wantNewBlocks
clientWorkerBroadcast(n) ==
  LET nd == node[n] IN
  /\ Running(n) /\ nd.cw.pc = "run" /\ "bcast" \in nd.cw.todo
  /\ RoomFor(nd, nd.pm.incoming, 1)
  /\ SetNode(n, [nd EXCEPT !.pm = Broadcast(@, New(@, wantNewBlocksMsg(nd.cw.keys))),
                           !.cw = cwDone(@, "bcast")])
  /\ calls' = [calls EXCEPT ![nd.cw.call].did = @ \cup {"broadcast"}]
  /\ UNCHANGED <<prqVars, batch, net, routing, online>>

\* host.Network().Peers(): the hosts that are up are connected to each
\* other and stay connected
connectedPeers(n) == IF n \in online THEN online ELSE {}

\* network adapter FindProvidersAsync: the connected peers, then the
\* providers the routing system knows; the node itself is left out
FindProviders(n, k) ==
  (connectedPeers(n) \cup (IF k \in DOMAIN routing THEN routing[k] ELSE {}))
    \ {n}

\* clientWorker: the providers of keys[0] are sent the wantlist; when the
\* context of the request is done the loop may return before any provider
clientWorkerProviders(n) ==
  LET nd == node[n] IN
  /\ Running(n) /\ nd.cw.pc = "run" /\ "prov" \in nd.cw.todo
  /\ \E ps \in (IF calls[nd.cw.call].ctxDone
                THEN SUBSET FindProviders(n, nd.cw.keys[1])
                ELSE {FindProviders(n, nd.cw.keys[1])}) :
       /\ ps # {} => RoomFor(nd, nd.pm.incoming, Cardinality(ps))
       /\ SetNode(n, [sendWantlistToPeers(nd, ps) EXCEPT
                        !.cw = cwDone(@, "prov")])
       /\ calls' = [calls EXCEPT ![nd.cw.call].did =
                      IF ps = {} THEN @ ELSE @ \cup {"send"}]
  /\ UNCHANGED <<prqVars, batch, net, routing, online>>

\* rebroadcastWorker: the broadcast signal fires with a wantlist that has
\* entries and providers
rebroadcastWorker(n) ==
  LET nd == node[n]
      ps == UNION {FindProviders(n, k) : k \in DOMAIN nd.wantlist}
  IN
  /\ Running(n) /\ nd.alive.rebroadcast
  /\ ps # {} /\ RoomFor(nd, nd.pm.incoming, Cardinality(ps))
  /\ SetNode(n, sendWantlistToPeers(nd, ps))
  /\ UNCHANGED <<prqVars, batch, net, routing, calls, online>>

\* provideCollector: case blk := <-bs.newBlocks
provideCollectorOverwrite(n) ==
  LET nd == node[n] IN
  /\ Running(n) /\ nd.alive.collector /\ nd.newBlocks # <<>>
  /\ SetNode(n, [nd EXCEPT
       !.newBlocks = Tail(@),
       !.pcoll = [@ EXCEPT !.nextKey = Head(nd.newBlocks),
                           !.keysOut = TRUE]])
  /\ UNCHANGED <<prqVars, batch, net, routing, calls, online>>

provideCollectorRecv(n) ==
  LET nd == node[n] IN
  /\ Running(n) /\ nd.alive.collector /\ nd.newBlocks # <<>>
  /\ SetNode(n, [nd EXCEPT
       !.newBlocks = Tail(@),
       !.pcoll = IF nd.pcoll.keysOut
                 THEN [@ EXCEPT !.toProvide = Append(@, Head(nd.newBlocks))]
                 ELSE [@ EXCEPT !.nextKey = Head(nd.newBlocks),
                                !.keysOut = TRUE]])
  /\ UNCHANGED <<prqVars, batch, net, routing, calls, online>>

\* network.Provide(k) by node n, when it returns nil
Provide(n, k) ==
  (k :> ((IF k \in DOMAIN routing THEN routing[k] ELSE {}) \cup {n}))
    @@ routing

\* provideCollector: case keysOut <- nextKey, received by a provideWorker,
\* which calls network.Provide: the request goes to the network; an error
\* is logged
provideWorker(n) ==
  LET nd == node[n] IN
  /\ Running(n) /\ nd.alive.collector /\ nd.alive.provide > 0
  /\ nd.pcoll.keysOut
  /\ \E err \in BOOLEAN :
       /\ routing' = IF err THEN routing ELSE Provide(n, nd.pcoll.nextKey)
       /\ net' = net (+) SetToBag({[from |-> n, provide |-> nd.pcoll.nextKey,
                                    err |-> err]})
  /\ SetNode(n, [nd EXCEPT !.pcoll =
       IF nd.pcoll.toProvide # <<>>
       THEN [@ EXCEPT !.nextKey = Head(nd.pcoll.toProvide),
                      !.toProvide = Tail(@)]
       ELSE [@ EXCEPT !.keysOut = FALSE, !.nextKey = Nil]])
  /\ UNCHANGED <<prqVars, batch, calls, online>>

\* the worker goroutines return on ctx.Done(); the provide workers also on
\* the close of provideKeys, which the collector does when it returns
workerExit(n, w) ==
  LET nd == node[n] IN
  /\ Running(n)
  /\ CASE w = "client" -> nd.closing /\ nd.alive.client /\ nd.cw.pc = "select"
       [] w = "task" -> nd.closing /\ nd.alive.task > 0
       [] w = "rebroadcast" -> nd.closing /\ nd.alive.rebroadcast
       [] w = "collector" -> nd.closing /\ nd.alive.collector
       [] w = "provide" -> (nd.closing \/ ~nd.alive.collector)
                             /\ nd.alive.provide > 0
  /\ SetNode(n, [nd EXCEPT !.alive[w] =
                   IF w \in {"task", "provide"} THEN @ - 1 ELSE FALSE])
  /\ UNCHANGED <<prqVars, batch, net, routing, calls, online>>

\* ------------------------------------------------------------------------
\* peermanager.go: the loop of Run, one case of its select per action
\* ------------------------------------------------------------------------

\* case msgp := <-pm.incoming, up to the unlock of the first AddMessage; a
\* broadcast ranges over the peers in the order of the map
pmIncoming(n) ==
  LET nd   == node[n]
      pm   == nd.pm
      msgp == Head(pm.incoming)
      pm1  == [pm EXCEPT !.incoming = Tail(@)]
  IN
  /\ Running(n) /\ pm.run = "select" /\ pm.incoming # <<>>
  /\ IF msgp.to = ""
     THEN IF DOMAIN pm.peers = {} THEN SetNode(n, [nd EXCEPT !.pm = pm1])
          ELSE \E p \in DOMAIN pm.peers :
                 SetNode(n, [nd EXCEPT !.pm =
                   [AddMessage([pm1 EXCEPT !.msg = msgp.msg], p, msgp.msg)
                      EXCEPT !.run = "signal", !.sig = p,
                             !.rest = DOMAIN pm.peers \ {p}]])
     ELSE LET pm2 == startPeerHandler(pm1, msgp.to) IN
          SetNode(n, [nd EXCEPT !.pm =
            [AddMessage(pm2, msgp.to, msgp.msg)
               EXCEPT !.run = "signal", !.sig = msgp.to, !.rest = {}]])
  /\ UNCHANGED <<prqVars, batch, net, routing, calls, online>>

\* the deferred signal of AddMessage, and the next AddMessage of a
\* broadcast up to its unlock
pmSignal(n) ==
  LET nd  == node[n]
      pm  == nd.pm
      pm1 == [pm EXCEPT !.peers[pm.sig] = Signal(@)]
  IN
  /\ Running(n) /\ pm.run = "signal"
  /\ IF pm.rest = {}
     THEN SetNode(n, [nd EXCEPT !.pm =
            [pm1 EXCEPT !.run = "select", !.sig = Nil, !.msg = Nil]])
     ELSE \E p \in pm.rest :
            SetNode(n, [nd EXCEPT !.pm =
              [AddMessage(pm1, p, pm.msg)
                 EXCEPT !.sig = p, !.rest = @ \ {p}]])
  /\ UNCHANGED <<prqVars, batch, net, routing, calls, online>>

\* case p := <-pm.connect
pmConnect(n) ==
  LET pm == node[n].pm IN
  /\ Running(n) /\ pm.run = "select" /\ pm.connect # <<>>
  /\ SetNode(n, [node[n] EXCEPT !.pm =
       startPeerHandler([pm EXCEPT !.connect = Tail(@)], Head(pm.connect))])
  /\ UNCHANGED <<prqVars, batch, net, routing, calls, online>>

\* case p := <-pm.disconnect
pmDisconnect(n) ==
  LET pm == node[n].pm IN
  /\ Running(n) /\ pm.run = "select" /\ pm.disconnect # <<>>
  /\ SetNode(n, [node[n] EXCEPT !.pm =
       stopPeerHandler([pm EXCEPT !.disconnect = Tail(@)],
                       Head(pm.disconnect))])
  /\ UNCHANGED <<prqVars, batch, net, routing, calls, online>>

pmCancelAll(n) ==
  LET pm == node[n].pm
      c  == Head(pm.cancels)
      pm1 == [pm EXCEPT !.cancels = Tail(@)]
  IN
  /\ Running(n) /\ pm.run = "select" /\ pm.cancels # <<>>
  /\ SetNode(n, [node[n] EXCEPT !.pm =
       IF c.who \in DOMAIN pm.peers
       THEN [pm1 EXCEPT !.peers[c.who].blocks = {}]
       ELSE pm1])
  /\ UNCHANGED <<prqVars, batch, net, routing, calls, online>>

\* case c := <-pm.cancels
pmCancel(n) ==
  LET pm == node[n].pm
      c  == Head(pm.cancels)
      pm1 == [pm EXCEPT !.cancels = Tail(@)]
  IN
  /\ Running(n) /\ pm.run = "select" /\ pm.cancels # <<>>
  /\ SetNode(n, [node[n] EXCEPT !.pm =
       IF c.who \in DOMAIN pm.peers
       THEN [pm1 EXCEPT !.peers[c.who].blocks = @ \ {c.blk}]
       ELSE pm1])
  /\ UNCHANGED <<prqVars, batch, net, routing, calls, online>>

\* case <-ctx.Done(): Run returns; the queues and their workers stay
pmDone(n) ==
  /\ Running(n) /\ node[n].closing /\ node[n].pm.run = "select"
  /\ SetNode(n, [node[n] EXCEPT !.pm.run = "done"])
  /\ UNCHANGED <<prqVars, batch, net, routing, calls, online>>

\* ------------------------------------------------------------------------
\* peermanager.go: runQueue, the worker of a queue.  A worker is named by
\* its peer and carries the queue.
\* ------------------------------------------------------------------------

Workers(nd) == {[p |-> p, mq |-> nd.pm.peers[p]] : p \in DOMAIN nd.pm.peers}

\* the queue of worker w becomes mq
putQueue(nd, w, mq) == [nd EXCEPT !.pm.peers[w.p] = mq]

\* case <-mq.work: ConnectTo, which is host.Connect: nil for a peer the
\* host is connected to, an error (logged) for a peer it cannot reach
runQueueConnect(n, w) ==
  /\ Running(n) /\ w \in Workers(node[n]) /\ w.mq.pc = "connect"
  /\ SetNode(n, putQueue(node[n], w, [w.mq EXCEPT !.pc = "snap"]))
  /\ UNCHANGED <<prqVars, batch, net, routing, calls, online>>

\* the critical section: the pending message and blocks are taken; a nil
\* wlm panics in wlm.Empty()
runQueueSnapshot(n, w) ==
  LET nd == node[n] IN
  /\ Running(n) /\ w \in Workers(nd) /\ w.mq.pc = "snap"
  /\ SetNode(n, [putQueue(nd, w, [w.mq EXCEPT !.pc = "send",
                                              !.wlm = w.mq.wlmsg,
                                              !.blks = w.mq.blocks,
                                              !.wlmsg = Nil,
                                              !.blocks = {}])
                   EXCEPT !.panicked = (w.mq.wlmsg = Nil)])
  /\ UNCHANGED <<prqVars, batch, net, routing, calls, online>>

\* the messages of a snapshot: wlm unless empty, then one message per block
snapshotMsgs(mq) ==
  (IF Empty(mq.wlm) THEN {} ELSE {wire(mq.wlm)})
    \cup {blockMsg(b) : b \in mq.blks}

\* network.SendMessage of each message of the snapshot; a send to a peer
\* the host cannot connect to returns an error (logged)
runQueueSend(n, w) ==
  LET nd   == node[n]
      msgs == IF w.p \in connectedPeers(n) THEN snapshotMsgs(w.mq) ELSE {} IN
  /\ Running(n) /\ w \in Workers(nd) /\ w.mq.pc = "send"
  /\ BagCardinality(net) + Cardinality(msgs) <= MaxNet
  /\ net' = net (+) SetToBag({[from |-> n, to |-> w.p, msg |-> m] : m \in msgs})
  /\ SetNode(n, putQueue(nd, w, [w.mq EXCEPT !.pc = "idle", !.wlm = Nil,
                                             !.blks = {}]))
  /\ UNCHANGED <<prqVars, batch, routing, calls, online>>

\* ------------------------------------------------------------------------
\* bitswap.go: ReceiveMessage, called by the goroutine of the network that
\* delivers a message
\* ------------------------------------------------------------------------

RECURSIVE hasBlockSteps(_, _, _)
hasBlockSteps(nd, b, i) ==
  IF i > Len(hbOrder) THEN nd
  ELSE hasBlockSteps(hbStep(nd, b, hbOrder[i]), b, i + 1)

RECURSIVE hasBlocks(_, _)
hasBlocks(nd, bs) ==
  IF bs = {} THEN nd
  ELSE LET b == CHOOSE x \in bs : TRUE
       IN hasBlocks(hasBlockSteps(nd, b, 1), bs \ {b})

RECURSIVE cancelEach(_, _, _)
cancelEach(pm, p, ks) ==
  IF ks = {} THEN pm
  ELSE LET k == CHOOSE x \in ks : TRUE
       IN cancelEach(CancelBlock(pm, p, k), p, ks \ {k})

cancelBlocks(nd, ks) ==
  IF ks = {} THEN nd ELSE [nd EXCEPT !.pm = Broadcast(@, New(@, cancelMsg(ks)))]

cancelled(m) == {k \in DOMAIN m.wl : m.wl[k].cancel}

\* HasBlock refuses the first block of a closing node and ReceiveMessage
\* returns the error
ReceiveMessage(nd, p, m) ==
  LET n1 == MessageReceived(nd, p, m)
      n2 == [n1 EXCEPT !.pm = cancelEach(@, p, cancelled(m))]
  IN IF refused(n2) THEN n2
     ELSE cancelBlocks(hasBlocks(n2, m.blocks), m.blocks)

deliver(d) ==
  LET nd == node[d.to] IN
  /\ BagIn(d, net) /\ Running(d.to)
  /\ cancelled(d.msg) # {}
       => RoomFor(nd, nd.pm.cancels, Cardinality(cancelled(d.msg)))
  /\ d.msg.blocks # {} /\ ~refused(nd)
       => /\ RoomFor(nd, nd.pm.incoming, 1)
          /\ Len(nd.newBlocks) + Cardinality(d.msg.blocks) <= HasBlockBufferSize
  /\ net' = net (-) SetToBag({d})
  /\ SetNode(d.to, ReceiveMessage(nd, d.from, d.msg))
  /\ UNCHANGED <<prqVars, batch, routing, calls, online>>

\* ------------------------------------------------------------------------
\* workers.go taskWorker with the task loop of the engine: the next task is
\* popped, its block is sent, the envelope's Sent calls the task's Done.
\* send reads the blocks of the message for MessageSent while the peer
\* manager may already have cleared them: seen tells which it read.
\* ------------------------------------------------------------------------

taskWorker(n, seen) ==
  /\ Running(n) /\ node[n].alive.task > 0
  /\ RoomFor(node[n], node[n].pm.incoming, 1)
  /\ \E r \in {Pop(node[n].prq)} :
       /\ r.out # NoTask
       /\ \E n2 \in {MessageSent(
                        [node[n] EXCEPT
                           !.prq = r.q,
                           !.pm = Send(@, r.out.Target,
                                       New(@, blockMsg(r.out.Key)))],
                        r.out.Target,
                        IF seen THEN blockMsg(r.out.Key) ELSE newMsg(FALSE))} :
            SetNode(n, [n2 EXCEPT !.prq = Renorm(DoneUpdate(
              [n2.prq EXCEPT !.partners[r.out.Target] = TaskDone(@, r.out.Key)],
              r.out.Target))])
  /\ UNCHANGED <<prqVars, batch, net, routing, calls, online>>

\* ------------------------------------------------------------------------
\* One node and its callers.  The host of QmA is connected to no peer and
\* the routing system knows no provider: the peer manager has no queue to
\* add a message to.
\* ------------------------------------------------------------------------

Local == "QmA"

Remote == "QmB"

\* the key lists of the calls of GetBlocks
Requests == {<<"k1">>, <<"k1", "k2">>}

InitNode ==
  /\ prq = newPRQ /\ inflight = {} /\ panicked = FALSE
  /\ node = [n \in {Local} |-> newNode]
  /\ net = EmptyBag
  /\ routing = <<>>
  /\ calls = <<>>
  /\ online = {Local}
  /\ batch = Nil

NextNode ==
  \/ \E keys \in Requests : GetBlocks(Local, keys)
  \/ \E b \in Keys : HasBlock(Local, b)
  \/ \E id \in DOMAIN calls : CtxDone(id)
  \/ \E id \in DOMAIN calls : GetBlocksEnqueue(id)
  \/ \E id \in DOMAIN calls : HasBlockStep(id)
  \/ clientWorkerTake(Local)
  \/ clientWorkerBroadcast(Local)
  \/ clientWorkerProviders(Local)
  \/ pmIncoming(Local)

SpecNode == InitNode /\ [][NextNode]_vars

\* ------------------------------------------------------------------------
\* The life cycle of one node: calls, Close, and the long-running tasks.
\* The routing system names the remote peer QmB, which the host cannot
\* reach, as a provider of k1, so that a request for k1 makes the peer
\* manager start a queue and its worker.  The rebroadcast timer does not
\* fire and no key reaches the provide workers in these runs.
\* ------------------------------------------------------------------------

\* calls made on a node before its Close
MaxOpenCalls == 1

WorkerNames == {"client", "task", "rebroadcast", "collector", "provide"}

InitClose ==
  /\ prq = newPRQ /\ inflight = {} /\ panicked = FALSE
  /\ node = [n \in {Local} |-> newNode]
  /\ net = EmptyBag
  /\ routing = [k \in {"k1"} |-> {Remote}]
  /\ calls = <<>>
  /\ online = {Local}
  /\ batch = Nil

\* the steps of the long-running tasks of node n
TaskStep(n) ==
  \/ clientWorkerTake(n)
  \/ clientWorkerBroadcast(n)
  \/ clientWorkerProviders(n)
  \/ \E w \in WorkerNames : workerExit(n, w)
  \/ pmIncoming(n)
  \/ pmSignal(n)
  \/ pmDone(n)
  \/ \E w \in Workers(node[n]) : runQueueConnect(n, w)
  \/ \E w \in Workers(node[n]) : runQueueSnapshot(n, w)
  \/ \E w \in Workers(node[n]) : runQueueSend(n, w)

\* the steps of the calls under way and of Close
CallStep(n) ==
  \/ \E id \in DOMAIN calls : GetBlocksEnqueue(id)
  \/ \E id \in DOMAIN calls : HasBlockStep(id)
  \/ CloseReturn(n)

OpenCallsLeft(n) == node[n].closing \/ Len(calls) < MaxOpenCalls

NextClose ==
  \/ OpenCallsLeft(Local) /\ GetBlocks(Local, <<"k1">>)
  \/ OpenCallsLeft(Local) /\ HasBlock(Local, "k1")
  \/ Close(Local)
  \/ CallStep(Local)
  \/ TaskStep(Local)

SpecClose == InitClose /\ [][NextClose]_vars

\* ------------------------------------------------------------------------
\* Two nodes whose hosts are connected, as the session generator leaves
\* them: each has been told of the other with PeerConnected.  QmA is given the
\* block k1 with HasBlock and QmB asks for it with GetBlocks, in either
\* order and once each; no context ends and no node is closed.
\* ------------------------------------------------------------------------

InitNet ==
  /\ prq = newPRQ /\ inflight = {} /\ panicked = FALSE
  /\ node = [n \in {Local, Remote} |->
               PeerConnected(newNode, IF n = Local THEN Remote ELSE Local)]
  /\ net = EmptyBag
  /\ routing = <<>>
  /\ calls = <<>>
  /\ online = {Local, Remote}
  /\ batch = Nil

notCalled(op) == \A id \in DOMAIN calls : calls[id].op # op

\* a call of HasBlock that runs to its end and returns nil
HasBlockCall(n, b) ==
  /\ Running(n) /\ Len(calls) < MaxCalls /\ ~refused(node[n])
  /\ Len(node[n].newBlocks) < HasBlockBufferSize
  /\ calls' = Append(calls, [newCall(n, "HasBlock", <<b>>) EXCEPT
                               !.ret = "nil", !.step = Len(hbOrder),
                               !.did = Range(hbOrder)])
  /\ SetNode(n, hasBlockSteps(node[n], b, 1))
  /\ UNCHANGED <<prqVars, batch, net, routing, online>>

\* a call of GetBlocks that runs to its end and returns the channel
GetBlocksCall(n, keys) ==
  /\ Running(n) /\ Len(calls) < MaxCalls /\ ~refused(node[n])
  /\ Len(node[n].batchRequests) < sizeBatchRequestChan
  /\ calls' = Append(calls, [newCall(n, "GetBlocks", keys) EXCEPT
                               !.pc = "wait", !.ret = "nil",
                               !.did = {"subscribe", "enqueue"}])
  /\ SetNode(n, [node[n] EXCEPT
       !.notifications = Subscribe(@, Len(calls) + 1, Range(keys)),
       !.batchRequests = Append(@, [keys |-> keys, call |-> Len(calls) + 1])])
  /\ UNCHANGED <<prqVars, batch, net, routing, online>>

\* the steps of the goroutines of node n but the rebroadcast timer
\* the steps of the goroutines of node n.  The provide workers are left to
\* SpecProvide: the hosts are connected to each other, and FindProviders
\* returns the connected peers whatever the routing system has learnt
NodeStep(n) ==
  \/ clientWorkerTake(n)
  \/ clientWorkerBroadcast(n)
  \/ clientWorkerProviders(n)
  \/ \E seen \in BOOLEAN : taskWorker(n, seen)
  \/ pmIncoming(n)
  \/ pmSignal(n)
  \/ pmConnect(n)
  \/ pmCancel(n)
  \/ \E w \in Workers(node[n]) : runQueueConnect(n, w)
  \/ \E w \in Workers(node[n]) : runQueueSnapshot(n, w)
  \/ \E w \in Workers(node[n]) : runQueueSend(n, w)

\* the steps that take no time to speak of: calls under way, goroutines,
\* messages in flight
Busy ==
  \/ \E d \in BagToSet(net) : deliver(d)
  \/ \E n \in {Local, Remote} : NodeStep(n)

\* node n has nothing to do: its channels are empty and its goroutines
\* wait in their selects
idle(n) ==
  LET nd == node[n] IN
  /\ nd.batchRequests = <<>> /\ nd.cw.pc = "select"
  /\ Pop(nd.prq).out = NoTask
  /\ nd.pm.incoming = <<>> /\ nd.pm.connect = <<>> /\ nd.pm.cancels = <<>>
  /\ nd.pm.disconnect = <<>>
  /\ nd.pm.run = "select"
  /\ \A w \in Workers(nd) : w.mq.pc = "idle"

\* no call is under way, no message is in flight and every node is idle
quiet ==
  /\ \A id \in DOMAIN calls : calls[id].pc \in {"wait", "done"}
  /\ net = EmptyBag
  /\ \A n \in DOMAIN node : idle(n)

\* the rebroadcast delay (10 s) is long: the timer of a node fires when
\* the nodes have nothing else to do
NextNet ==
  \/ notCalled("HasBlock") /\ HasBlockCall(Local, "k1")
  \/ notCalled("GetBlocks") /\ GetBlocksCall(Remote, <<"k1">>)
  \/ Busy
  \/ quiet /\ \E n \in {Local, Remote} : rebroadcastWorker(n)

SpecNet == InitNet /\ [][NextNet]_vars

\* ------------------------------------------------------------------------
\* Properties of one node
\* ------------------------------------------------------------------------

\* the calls of HasBlock for block b that have removed b from the wantlist
\* and not yet published it
removing(n, b) ==
  {id \in DOMAIN calls :
     /\ calls[id].node = n /\ calls[id].op = "HasBlock" /\ calls[id].keys[1] = b
     /\ calls[id].pc = "steps"
     /\ "remove" \in calls[id].did /\ "publish" \notin calls[id].did}

\* the subscriptions of node n that are open and still await k
awaiting(n, k) ==
  {id \in DOMAIN node[n].notifications :
     node[n].notifications[id].open /\ k \in node[n].notifications[id].want}

\* C5 (as stated): on a single node, a GetBlock of a key whose HasBlock has
\* returned nil returns the block, and no wantlist broadcast and no send to
\* providers is made because of it.
C5_LocalHit ==
  \A id \in DOMAIN calls :
    (calls[id].op = "GetBlocks" /\ Range(calls[id].keys) \subseteq calls[id].had)
      => /\ "broadcast" \notin calls[id].did
         /\ "send" \notin calls[id].did
         /\ calls[id].ctxDone =>
              Range(node[calls[id].node].notifications[id].got)
                = Range(calls[id].keys)

\* C6 (as stated): a key is in the local wantlist iff some outstanding
\* GetBlocks subscription still awaits it.
C6_WantlistIffAwaited ==
  \A k \in Keys :
    (k \in DOMAIN node[Local].wantlist) <=> (awaiting(Local, k) # {})

\* the context of a GetBlocks call whose batch the client worker had
\* received has ended, no subscription awaits the key any more, no HasBlock
\* is under way, and the key is still in the wantlist
C6_WantlistLeak ==
  \E k \in Keys, id \in DOMAIN calls :
    /\ calls[id].op = "GetBlocks" /\ calls[id].ctxDone
    /\ "want" \in calls[id].did /\ k \in Range(calls[id].keys)
    /\ awaiting(Local, k) = {}
    /\ \A x \in DOMAIN calls : calls[x].pc \in {"done", "wait"}
    /\ k \in DOMAIN node[Local].wantlist

\* C7: HasBlock puts the block in the store, then removes its key from the
\* wantlist, then publishes it; so whenever a subscription receives a block
\* the local store already has it.
C7_StoredBeforePublished ==
  /\ [](\A id \in DOMAIN calls :
          calls[id].op = "HasBlock" =>
            /\ "publish" \in calls[id].did => "remove" \in calls[id].did
            /\ "remove" \in calls[id].did => "put" \in calls[id].did)
  /\ [][\A n \in DOMAIN node : \A id \in DOMAIN node[n].notifications :
          Len(node'[n].notifications[id].got) > Len(node[n].notifications[id].got)
            => LET g == node'[n].notifications[id].got
               IN g[Len(g)] \in node[n].blockstore]_vars

\* a subscription has received a block published by a HasBlock that has not
\* yet returned
C7_Witness ==
  \E id \in DOMAIN calls, x \in DOMAIN calls :
    /\ calls[x].op = "HasBlock" /\ calls[x].pc = "steps"
    /\ "publish" \in calls[x].did
    /\ calls[id].op = "GetBlocks"
    /\ calls[x].keys[1] \in Range(node[calls[id].node].notifications[id].got)

\* ------------------------------------------------------------------------
\* Properties of the life cycle
\* ------------------------------------------------------------------------

\* C3: a call of GetBlock, GetBlocks or HasBlock made after Close has
\* returned returns the error at once and has no effect: no subscription,
\* no batch request, no block stored, nothing published; the node, the
\* network and the routing system are as before the call.
C3_ClosedCallsRefused ==
  /\ [](\A id \in DOMAIN calls :
          calls[id].afterClose =>
            calls[id].pc = "done" /\ calls[id].ret = "closed"
              /\ calls[id].did = {})
  /\ [][(Len(calls') > Len(calls) /\ node[Local].closed)
          => (node' = node /\ net' = net /\ routing' = routing)]_vars

\* a GetBlocks and a HasBlock were both called after Close had returned
C3_Witness ==
  /\ \E i \in DOMAIN calls, j \in DOMAIN calls :
       /\ calls[i].afterClose /\ calls[i].op = "GetBlocks"
       /\ calls[j].afterClose /\ calls[j].op = "HasBlock"
  /\ node[Local].closed

\* every long-running task of node n has returned
allTerminated(n) ==
  /\ childrenDone(node[n])
  /\ node[n].pm.run = "done"
  /\ Workers(node[n]) = {}

\* C4 (as stated): after Close every long-running task terminates, the loop
\* of the peer manager and the worker of every queue included: in a
\* closing node that has not died in a panic either every task has returned
\* or some step of a task, of a call under way or of the network is still
\* to come.
C4_TasksTerminate ==
  (node[Local].closing /\ ~node[Local].panicked) =>
    (allTerminated(Local) \/ ENABLED (TaskStep(Local) \/ CallStep(Local)))

\* the calls of HasBlock that have returned an error
failed ==
  {id \in DOMAIN calls :
     /\ calls[id].op = "HasBlock" /\ calls[id].pc = "done"
     /\ calls[id].ret # "nil"}

\* C31 (as stated): a call of HasBlock that returns an error had no visible
\* effect: it has not published the block to the waiters, it has not removed
\* the key from the local wantlist and it has not queued the block for the
\* provide announcement.
C31_ErrorHasNoEffect ==
  \A id \in failed :
    calls[id].did \cap {"remove", "publish", "newBlocks"} = {}

\* the only call of HasBlock for a block returned the error of its context,
\* and yet a subscription of GetBlocks was handed the block and the key,
\* which the client worker had put in the wantlist, is no longer there
C31_PublishedThenFailed ==
  \E x \in failed, id \in DOMAIN calls :
    LET b == calls[x].keys[1] IN
    /\ calls[x].ret = "ctx"
    /\ \A y \in DOMAIN calls \ {x} : calls[y].op # "HasBlock"
    /\ calls[id].op = "GetBlocks" /\ "want" \in calls[id].did
    /\ b \in Range(calls[id].keys)
    /\ b \in Range(node[calls[x].node].notifications[id].got)
    /\ b \notin DOMAIN node[calls[x].node].wantlist
    /\ b \in node[calls[x].node].blockstore
    /\ b \notin Range(node[calls[x].node].newBlocks)

\* ------------------------------------------------------------------------
\* Properties of two connected nodes
\* ------------------------------------------------------------------------

\* the subscription of GetBlocks call id has been handed every block asked
\* for, and the store of the caller holds them
received(id) ==
  /\ Range(calls[id].keys)
       \subseteq Range(node[calls[id].node].notifications[id].got)
  /\ Range(calls[id].keys) \subseteq node[calls[id].node].blockstore

\* the keys a HasBlock has returned nil for on a node other than n
announcedTo(n) == UNION {hasReturned(m) : m \in DOMAIN node \ {n}}

\* C1 (as stated): a GetBlocks for keys that a HasBlock on a connected peer
\* had returned nil for, with a context that does not end, receives the
\* blocks and the store of the caller holds them: as long as it has not, some
\* step of the nodes or of the network is still to come.
C1_EventuallyReceives ==
  \A id \in DOMAIN calls :
    (/\ calls[id].op = "GetBlocks" /\ calls[id].pc = "wait"
     /\ ~calls[id].ctxDone
     /\ Range(calls[id].keys) \subseteq calls[id].held)
      => (received(id) \/ ENABLED NextNet)

\* C2 (as stated): a GetBlocks([k]) made while no peer has the block, after
\* which a connected peer calls HasBlock for it, is handed the block, and
\* exactly once: never twice, and as long as it has not been handed the block
\* some step of the nodes or of the network is still to come.
C2_LateAnnounce ==
  \A id \in DOMAIN calls :
    (/\ calls[id].op = "GetBlocks" /\ calls[id].pc = "wait"
     /\ ~calls[id].ctxDone
     /\ Range(calls[id].keys) \cap calls[id].stored = {})
      => /\ Len(node[calls[id].node].notifications[id].got)
              <= Cardinality(Range(calls[id].keys))
         /\ Range(calls[id].keys) \subseteq announcedTo(calls[id].node)
              => (received(id) \/ ENABLED NextNet)

\* ------------------------------------------------------------------------
\* The priority of the key at index i of a batch request, in the loops of
\* clientWorker (wantlist.Add) and of wantNewBlocks (message.AddEntry)
\* ------------------------------------------------------------------------

\* the indexes are taken from 0, up to kMaxPriority and from kMaxPriority + 1,
\* MaxIndex + 1 of each
MaxIndex == 8

Indexes ==
  {[hi |-> 0, lo |-> d] : d \in 0..MaxIndex}
    \cup {[hi |-> 0, lo |-> kMaxPriority - d] : d \in 0..MaxIndex}
    \cup {[hi |-> 1, lo |-> d] : d \in 0..MaxIndex}

InitPrio ==
  /\ prq = newPRQ /\ inflight = {} /\ panicked = FALSE
  /\ node = <<>> /\ net = EmptyBag /\ routing = <<>> /\ calls = <<>>
  /\ online = {}
  /\ batch \in [i : Indexes, k : Keys, wantlist : {Nil}, entry : {Nil}]

\* clientWorker: bs.wantlist.Add(k, kMaxPriority-i)
clientWorkerAdd ==
  /\ batch.wantlist = Nil
  /\ batch' = [batch EXCEPT !.wantlist = wantPriority(batch.i)]
  /\ UNCHANGED <<prqVars, netVars>>

\* wantNewBlocks: message.AddEntry(k, kMaxPriority-i)
wantNewBlocksAddEntry ==
  /\ batch.wantlist # Nil /\ batch.entry = Nil
  /\ batch' = [batch EXCEPT !.entry = wantPriority(batch.i)]
  /\ UNCHANGED <<prqVars, netVars>>

NextPrio == clientWorkerAdd \/ wantNewBlocksAddEntry

SpecPrio == InitPrio /\ [][NextPrio]_vars

\* C8 (as stated): the priority given to the key at index i of a batch is
\* MaxPriority - i, saturating at 0: it is never negative.
C8_PrioritySaturates ==
  \A f \in {"wantlist", "entry"} :
    batch[f] # Nil =>
      /\ ~wideNegative(batch[f])
      /\ batch[f] = IF batch.i.hi > 0 THEN wide(0)
                    ELSE wide(kMaxPriority - batch.i.lo)

\* ------------------------------------------------------------------------
\* The peer manager of one node and the queues of two peers.  Its callers
\* Send (to QmB), Broadcast and CancelBlock; the peers have connected and
\* have their queues; net[p] is the sequence of messages the worker of p called
\* network.SendMessage with in its last cycle.
\* ------------------------------------------------------------------------

\* the number of calls made on the peer manager
MaxSends == 3

QueuePeers == {Remote, "QmC"}

\* the messages the callers send: a full wantlist with a block, an
\* addition, a cancel, a block
Msgs ==
  { AddBlock(AddEntry(newMsg(TRUE), "k1", 1), "k2"),
    AddEntry(newMsg(FALSE), "k2", 1),
    Cancel(newMsg(FALSE), "k1"),
    AddBlock(newMsg(FALSE), "k1") }

InitPM ==
  /\ prq = newPRQ
  /\ inflight = {}
  /\ panicked = FALSE
  /\ batch = Nil
  /\ node = (Local :> [newNode EXCEPT !.pm.peers =
                                   [p \in QueuePeers |-> newMsgQueue]])
  /\ net = [p \in QueuePeers |-> <<>>]
  /\ routing = <<>>
  /\ calls = <<>>
  /\ online = {Local} \cup QueuePeers

\* a call on the peer manager: the send on one of its channels
pmCall(op, pm) ==
  /\ Running(Local) /\ Len(calls) < MaxSends
  /\ calls' = Append(calls, [op |-> op])
  /\ SetNode(Local, [node[Local] EXCEPT !.pm = pm])
  /\ UNCHANGED <<prqVars, batch, net, routing, online>>

DoSend(to, msg) ==
  /\ RoomFor(node[Local], node[Local].pm.incoming, 1)
  /\ pmCall("pm", Send(node[Local].pm, to, New(node[Local].pm, msg)))

DoBroadcast(msg) ==
  /\ RoomFor(node[Local], node[Local].pm.incoming, 1)
  /\ pmCall("pm", Broadcast(node[Local].pm, New(node[Local].pm, msg)))

DoCancelBlock(p, k) ==
  /\ RoomFor(node[Local], node[Local].pm.cancels, 1)
  /\ pmCall("pm", CancelBlock(node[Local].pm, p, k))

\* the orders runQueue can send a snapshot in: wlm first unless empty, then
\* the blocks in the order the map is ranged over, one message each
RECURSIVE blockOrders(_)
blockOrders(blks) ==
  IF blks = {} THEN {<<>>}
  ELSE UNION {{<<blockMsg(b)>> \o s : s \in blockOrders(blks \ {b})} :
                b \in blks}

sendOrdersBlocksFirst(mq) ==
  {s \o (IF Empty(mq.wlm) THEN <<>> ELSE <<wire(mq.wlm)>>) :
     s \in blockOrders(mq.blks)}

sendOrders(mq) ==
  {(IF Empty(mq.wlm) THEN <<>> ELSE <<wire(mq.wlm)>>) \o s :
     s \in blockOrders(mq.blks)}

\* runQueue after the snapshot: the calls of network.SendMessage, in order
runQueueSendStream(n, w) ==
  /\ Running(n) /\ w \in Workers(node[n]) /\ w.mq.pc = "send"
  /\ \E s \in sendOrders(w.mq) : net' = [net EXCEPT ![w.p] = s]
  /\ SetNode(n, putQueue(node[n], w, [w.mq EXCEPT !.pc = "idle", !.wlm = Nil,
                                                  !.blks = {}]))
  /\ UNCHANGED <<prqVars, batch, routing, calls, online>>

NextPM ==
  \/ \E msg \in Msgs : DoSend(Remote, msg)
  \/ \E msg \in Msgs : DoBroadcast(msg)
  \/ \E p \in {Remote, Local} : DoCancelBlock(p, "k1")
  \/ pmIncoming(Local)
  \/ pmSignal(Local)
  \/ pmCancel(Local)
  \/ \E w \in Workers(node[Local]) : runQueueConnect(Local, w)
  \/ \E w \in Workers(node[Local]) : runQueueSnapshot(Local, w)
  \/ \E w \in Workers(node[Local]) : runQueueSendStream(Local, w)

SpecPM == InitPM /\ [][NextPM]_vars

\* the message Run gives to AddMessage of the queue of p in this step, Nil
\* when the step is no AddMessage on that queue
added(p) ==
  LET pm == node[Local].pm
      pm2 == node'[Local].pm
  IN IF /\ pm.run = "select" /\ pm.incoming # <<>>
        /\ Len(pm2.incoming) = Len(pm.incoming) - 1
        /\ pm2.run = "signal" /\ pm2.sig = p
     THEN Head(pm.incoming).msg
     ELSE IF /\ pm.run = "signal" /\ p \in pm.rest
             /\ pm2.sig = p /\ pm2.rest = pm.rest \ {p}
          THEN pm.msg
          ELSE Nil

\* messages that contain only wantlist additions
OnlyAdditions ==
  {m \in Msgs : m.blocks = {} /\ \A k \in DOMAIN m.wl : ~m.wl[k].cancel}

\* C13: for a send queue in any state and any message m that contains only
\* wantlist additions, AddMessage(m) twice leaves the same pending wantlist
\* message (Full flag, key-to-priority entries) and the same payload map
\* as AddMessage(m) once.
C13_AddTwiceIsAddOnce ==
  \A p \in QueuePeers : \A m \in OnlyAdditions :
    LET pm    == startPeerHandler(node[Local].pm, p)
        msg   == New(pm, m)
        once  == AddMessage(pm, p, msg).peers[p]
        twice == AddMessage(AddMessage(pm, p, msg), p, msg).peers[p]
    IN /\ twice.wlmsg.full = once.wlmsg.full
       /\ twice.wlmsg.wl = once.wlmsg.wl
       /\ twice.blocks = once.blocks

\* a queue with a pending cancel of k1 and a pending block: the additions
\* of k1 are applied to it once and twice
C13_Witness ==
  \E p \in DOMAIN node[Local].pm.peers :
    LET mq == node[Local].pm.peers[p] IN
      /\ mq.wlmsg # Nil /\ mq.blocks # {}
      /\ "k1" \in DOMAIN mq.wlmsg.wl /\ mq.wlmsg.wl["k1"].cancel

\* C14: after AddMessage(m) with m.Full set, the pending wantlist message
\* of the queue is exactly the wantlist of m, whatever was pending before;
\* the pending block payloads are kept.
C14_FullSupersedes ==
  [][\A p \in QueuePeers :
       (added(p) # Nil /\ added(p).full) =>
         LET mq  == node[Local].pm.peers[p]
             mq2 == node'[Local].pm.peers[p]
         IN /\ mq2.wlmsg.full
            /\ mq2.wlmsg.wl = added(p).wl
            /\ mq2.wlmsg.blocks = {}
            /\ mq.blocks \subseteq mq2.blocks
            /\ mq2.blocks = mq.blocks \cup added(p).blocks]_vars

\* a full message is pending on a queue whose payload map holds the block
\* the full message carried and a block of another message
C14_Witness ==
  \E p \in DOMAIN node[Local].pm.peers :
    LET mq == node[Local].pm.peers[p] IN
      /\ mq.wlmsg # Nil /\ mq.wlmsg.full
      /\ mq.blocks = {"k1", "k2"}

\* the pending wantlist entries of queue mq
pendingWl(mq) == IF mq.wlmsg = Nil THEN <<>> ELSE mq.wlmsg.wl

\* this step is the snapshot of the worker of the queue that goes from mq
\* to mq2
snapshot(mq, mq2) ==
  /\ mq.pc = "snap" /\ mq2.pc = "send"
  /\ mq2.wlmsg = Nil /\ mq2.blocks = {}

\* this step is the cancel of block b of peer p
cancelOf(p, b) ==
  LET pm == node[Local].pm IN
  /\ pm.run = "select" /\ pm.cancels # <<>>
  /\ node'[Local].pm.cancels = Tail(pm.cancels)
  /\ Head(pm.cancels) = [who |-> p, blk |-> b]

\* C15 (as stated): under any interleaving of AddMessage with the worker of
\* the queue, every wantlist entry and every block given to AddMessage is
\* pending after it, and whatever is pending stays pending or becomes part
\* of exactly one snapshot (which clears it from the pending state), unless
\* it is superseded by a later Full message, overwritten by a later block
\* with the same key, or removed by CancelBlock.  An entry that a later
\* entry for the same key, given to the same queue, takes the place of is
\* coalesced and counts as pending.
C15_NoUpdateLost ==
  [][\A p \in DOMAIN node'[Local].pm.peers :
       LET mq  == node[Local].pm.peers[p]
           mq2 == node'[Local].pm.peers[p]
       IN /\ added(p) # Nil =>
               /\ \A k \in DOMAIN added(p).wl :
                    /\ k \in DOMAIN pendingWl(mq2)
                    /\ pendingWl(mq2)[k].cancel = added(p).wl[k].cancel
                    /\ ~added(p).wl[k].cancel
                         => pendingWl(mq2)[k].pri = added(p).wl[k].pri
               /\ added(p).blocks \subseteq mq2.blocks
          /\ \A k \in DOMAIN pendingWl(mq) :
               \/ /\ k \in DOMAIN pendingWl(mq2)
                  /\ pendingWl(mq2)[k] = pendingWl(mq)[k]
               \/ /\ snapshot(mq, mq2)
                  /\ mq2.wlm # Nil /\ k \in DOMAIN mq2.wlm.wl
                  /\ mq2.wlm.wl[k] = pendingWl(mq)[k]
               \/ added(p) # Nil /\ added(p).full
               \/ added(p) # Nil /\ k \in DOMAIN added(p).wl
          /\ \A b \in mq.blocks :
               \/ b \in mq2.blocks
               \/ snapshot(mq, mq2) /\ b \in mq2.blks
               \/ cancelOf(p, b)]_vars

\* C16: CancelBlock(p, k), applied while block k is in the pending payload
\* map of the queue of p, removes it, so that no later snapshot sends it;
\* it changes no other pending block, not the pending wantlist message,
\* no snapshot and no other peer's queue; for a peer that has no queue it
\* changes nothing and creates no queue.
C16_CancelBlockFrame ==
  [][\A p \in {Remote, Local} : \A b \in {"k1"} :
       cancelOf(p, b) =>
         /\ node'[Local].pm.peers =
              IF p \in DOMAIN node[Local].pm.peers
              THEN [node[Local].pm.peers EXCEPT ![p].blocks = @ \ {b}]
              ELSE node[Local].pm.peers
         /\ net' = net]_vars

\* Run is about to take the cancel of a block that is pending on the queue
\* of its peer, next to another block and a wantlist message; the other
\* queue has a wantlist message pending too
C16_Witness ==
  LET pm == node[Local].pm IN
  /\ pm.run = "select" /\ pm.cancels # <<>>
  /\ Head(pm.cancels).who \in DOMAIN pm.peers
  /\ LET mq == pm.peers[Head(pm.cancels).who] IN
       /\ Head(pm.cancels).blk \in mq.blocks
       /\ mq.blocks # {Head(pm.cancels).blk}
       /\ mq.wlmsg # Nil
  /\ \E q \in DOMAIN pm.peers \ {Head(pm.cancels).who} :
       pm.peers[q].wlmsg # Nil

\* Run is about to take the cancel of a block of a peer that has no queue
C16_NoQueue ==
  LET pm == node[Local].pm IN
  /\ pm.run = "select" /\ pm.cancels # <<>>
  /\ Head(pm.cancels).who \notin DOMAIN pm.peers

MaxBlocks == 3

ProvideHasBlock(b) ==
  /\ Running(Local) /\ Len(calls) < MaxBlocks /\ ~refused(node[Local])
  /\ Len(node[Local].newBlocks) < HasBlockBufferSize
  /\ calls' = Append(calls, [op |-> "HasBlock", keys |-> <<b>>])
  /\ SetNode(Local, hasBlockSteps(node[Local], b, 1))
  /\ UNCHANGED <<prqVars, batch, net, routing, online>>

NextProvide ==
  \/ \E b \in Keys : ProvideHasBlock(b)
  \/ provideCollectorRecv(Local)
  \/ provideWorker(Local)

SpecProvide == InitNode /\ [][NextProvide]_vars

\* the keys in the pipeline, oldest first: the key on offer, the keys the
\* collector buffers, the blocks in the channel
fifo(nd) ==
  (IF nd.pcoll.keysOut THEN <<nd.pcoll.nextKey>> ELSE <<>>)
    \o nd.pcoll.toProvide \o nd.newBlocks

\* the keys accepted on newBlocks, in arrival order
arrived == [i \in DOMAIN calls |-> calls[i].keys[1]]

\* the number of Provide calls for key k among the requests reqs
provideCalls(reqs, k) ==
  CopiesIn([from |-> Local, provide |-> k, err |-> FALSE], reqs)
    + CopiesIn([from |-> Local, provide |-> k, err |-> TRUE], reqs)

\* C18: as long as the engine is not shut down, every key accepted on
\* newBlocks is offered on provideKeys exactly once and in arrival order
\* and leads to exactly one Provide call, failed or not: the keys still in
\* the pipeline are the last keys that arrived, in their order; Provide
\* has been called for each key as often as it is among the keys that
\* arrived before those; every offer takes the oldest key out of the
\* pipeline and calls Provide for it.
C18_ProvideLossless ==
  /\ [](LET f == fifo(node[Local])
            offered == Len(arrived) - Len(f)
        IN /\ offered >= 0
           /\ f = SubSeq(arrived, offered + 1, Len(arrived))
           /\ \A k \in Keys :
                provideCalls(net, k)
                  = Cardinality({i \in 1..offered : arrived[i] = k}))
  /\ [][LET f  == fifo(node[Local])
            f2 == fifo(node'[Local])
        IN \/ f2 = f /\ net' = net
           \/ arrived' # arrived /\ net' = net /\ f2 = f \o <<arrived'[Len(arrived')]>>
           \/ /\ f # <<>> /\ f2 = Tail(f) /\ arrived' = arrived
              /\ node[Local].pcoll.keysOut
              /\ provideCalls(net', Head(f)) = provideCalls(net, Head(f)) + 1
              /\ routing' \in {routing, Provide(Local, Head(f))}]_vars

\* a key has been provided, a second is on offer, a third is buffered by
\* the collector
C18_Witness ==
  /\ net # EmptyBag
  /\ node[Local].pcoll.keysOut
  /\ node[Local].pcoll.toProvide # <<>>


\* what a reference holds: nil or the content of its message
content(m) == IF m = Nil THEN Nil ELSE wire(m)

\* C26 (as stated): the send queues are isolated from each other: a step
\* of Run that gives a message to AddMessage of the queue of p changes
\* neither the pending wantlist message nor the snapshot of any other
\* queue, also when the queues were given one message object before.
C26_QueuesIsolated ==
  [][\A p \in QueuePeers :
       added(p) # Nil =>
         \A q \in QueuePeers \ {p} :
           /\ content(node'[Local].pm.peers[q].wlmsg)
                = content(node[Local].pm.peers[q].wlmsg)
           /\ content(node'[Local].pm.peers[q].wlm)
                = content(node[Local].pm.peers[q].wlm)]_vars

\* a broadcast has left one message object as the pending wantlist
\* message of both queues
C26_SharedObject ==
  LET mqs == node[Local].pm.peers IN
  /\ mqs[Remote].wlmsg # Nil /\ mqs["QmC"].wlmsg # Nil
  /\ mqs[Remote].wlmsg.obj = mqs["QmC"].wlmsg.obj

\* the peer manager and the worker of queue w wait in their selects: no
\* signal is under way and none will come unless a caller adds a message
waiting(w) ==
  /\ ~node[Local].panicked
  /\ node[Local].pm.run = "select" /\ node[Local].pm.incoming = <<>>
  /\ w.mq.pc = "idle"

\* queue w holds a wantlist entry or a block that no snapshot has taken
stranded(w) ==
  \/ w.mq.wlmsg # Nil /\ DOMAIN w.mq.wlmsg.wl # {}
  \/ w.mq.blocks # {}

\* C24 (as stated): every entry and block that AddMessage puts into a live
\* queue is taken by a snapshot of the worker and handed to the network
\* without a later AddMessage on that queue: whenever the peer manager and
\* the worker of a queue both wait in their selects, the queue holds
\* nothing pending.
C24_NothingStranded ==
  \A w \in Workers(node[Local]) : waiting(w) => ~stranded(w)

\* the worker of a queue has sent a snapshot and waits in its select while
\* a message added during its cycle is pending, and the peer manager has
\* nothing left to signal
C24_LostWakeup ==
  \E w \in Workers(node[Local]) :
    waiting(w) /\ stranded(w) /\ net[w.p] # <<>>

\* C25 (as stated): whenever the worker of a queue takes its snapshot,
\* the queue holds a pending wantlist message: the snapshot a worker sends
\* from always has a wantlist message, and no worker dies in its emptiness
\* test.
C25_SnapshotHasMessage ==
  /\ ~node[Local].panicked
  /\ \A w \in Workers(node[Local]) : w.mq.pc = "send" => w.mq.wlm # Nil

\* a worker was woken by the signal of an AddMessage whose message an
\* earlier cycle had already taken, and has taken a snapshot without a
\* wantlist message
C25_NilSnapshot ==
  /\ node[Local].panicked
  /\ \E w \in Workers(node[Local]) :
       w.mq.pc = "send" /\ w.mq.wlm = Nil /\ net[w.p] # <<>>

\* ------------------------------------------------------------------------
\* One broadcast, which calls records with its message, after at most one
\* Send to QmB; both peers have their queues.
\* ------------------------------------------------------------------------

broadcastCalls == {i \in DOMAIN calls : calls[i].op = "Broadcast"}

DoBroadcastLogged(msg) ==
  /\ Running(Local) /\ broadcastCalls = {}
  /\ RoomFor(node[Local], node[Local].pm.incoming, 1)
  /\ calls' = Append(calls, [op |-> "Broadcast", msg |-> msg])
  /\ SetNode(Local, [node[Local] EXCEPT
       !.pm = Broadcast(@, New(@, msg))])
  /\ UNCHANGED <<prqVars, batch, net, routing, online>>

NextBroadcast ==
  \/ \E msg \in Msgs : calls = <<>> /\ DoSend(Remote, msg)
  \/ \E msg \in Msgs : DoBroadcastLogged(msg)
  \/ pmIncoming(Local)
  \/ pmSignal(Local)
  \/ \E w \in Workers(node[Local]) : runQueueConnect(Local, w)
  \/ \E w \in Workers(node[Local]) : runQueueSnapshot(Local, w)
  \/ \E w \in Workers(node[Local]) : runQueueSendStream(Local, w)

SpecBroadcast == InitPM /\ [][NextBroadcast]_vars

\* Run has taken the broadcast and given it to every queue
broadcastDone ==
  /\ broadcastCalls # {}
  /\ node[Local].pm.incoming = <<>> /\ node[Local].pm.run = "select"

\* the wantlist entry e of key k is pending in the queue of p, in its
\* snapshot or in the messages its worker has sent
hasEntry(p, k, e) ==
  LET mq == node[Local].pm.peers[p]
      in(m) == m # Nil /\ k \in DOMAIN m.wl /\ m.wl[k] = e
  IN in(mq.wlmsg) \/ in(mq.wlm) \/ \E j \in DOMAIN net[p] : in(net[p][j])

\* the block b is pending in the queue of p, in its snapshot or in the
\* messages its worker has sent
hasBlock(p, b) ==
  LET mq == node[Local].pm.peers[p]
  IN b \in mq.blocks \cup mq.blks
       \/ \E j \in DOMAIN net[p] : b \in net[p][j].blocks

\* the wantlist entries of the broadcast have reached every queue
entriesBroadcast ==
  broadcastDone =>
    \A i \in broadcastCalls : \A p \in QueuePeers :
      \A k \in DOMAIN calls[i].msg.wl : hasEntry(p, k, calls[i].msg.wl[k])

\* C27 (as stated): Broadcast(msg) merges msg, with its wantlist entries
\* and its blocks, into the queue of every peer the peer manager knows when
\* it processes the broadcast, and creates no queue: once Run has taken the
\* broadcast, every entry and every block of msg is in every queue, or
\* has been taken from it by its worker.
C27_BroadcastReachesAll ==
  /\ entriesBroadcast
  /\ broadcastDone =>
       \A i \in broadcastCalls : \A p \in QueuePeers :
         \A b \in calls[i].msg.blocks : hasBlock(p, b)
  /\ DOMAIN node[Local].pm.peers = QueuePeers

\* Run has given a broadcast with a block to both queues, and one of them
\* has its entries but not its block
C27_BlockInOneQueue ==
  /\ broadcastDone
  /\ \E i \in broadcastCalls : \E b \in calls[i].msg.blocks :
       \E p, q \in QueuePeers :
         /\ hasBlock(p, b) /\ ~hasBlock(q, b)
         /\ \A k \in DOMAIN calls[i].msg.wl :
              hasEntry(q, k, calls[i].msg.wl[k])
         /\ DOMAIN calls[i].msg.wl # {}

\* ------------------------------------------------------------------------
\* ReceiveMessage and the failures of HasBlock.  The node knows two peers;
\* messages arrive from QmB.  Blocks() lists the blocks of a message in an
\* order the message decides, and blockstore.Put may fail for any of them.
\* calls is the sequence of the calls of ReceiveMessage.
\* ------------------------------------------------------------------------

\* the calls of ReceiveMessage
MaxReceives == 2

\* the messages that arrive
Received ==
  {AddBlock(AddBlock(newMsg(FALSE), "k1"), "k2"),
   AddBlock(Cancel(newMsg(FALSE), "k2"), "k1"),
   Cancel(newMsg(FALSE), "k1"),
   AddEntry(newMsg(TRUE), "k1", 1)}

\* the orders in which Blocks() can list the blocks blks
RECURSIVE blockSeqs(_)
blockSeqs(blks) ==
  IF blks = {} THEN {<<>>}
  ELSE UNION {{<<b>> \o s : s \in blockSeqs(blks \ {b})} : b \in blks}

\* the calls of HasBlock for the blocks bs, each returning nil
RECURSIVE hasBlocksIn(_, _)
hasBlocksIn(nd, bs) ==
  IF bs = <<>> THEN nd
  ELSE hasBlocksIn(hasBlockSteps(nd, Head(bs), 1), Tail(bs))

\* ReceiveMessage when Blocks() lists the blocks as bs and blockstore.Put
\* fails for the block of index at (0: for none): HasBlock returns the
\* error and ReceiveMessage returns it, before cancelBlocks
ReceiveMessageErr(nd, p, m, bs, at) ==
  LET n1 == MessageReceived(nd, p, m)
      n2 == [n1 EXCEPT !.pm = cancelEach(@, p, cancelled(m))]
  IN IF refused(n2) THEN n2
     ELSE IF at = 0 THEN cancelBlocks(hasBlocksIn(n2, bs), Range(bs))
     ELSE hasBlocksIn(n2, SubSeq(bs, 1, at - 1))

DoReceive(p, m, bs, at) ==
  LET nd == node[Local] IN
  /\ Running(Local) /\ Len(calls) < MaxReceives
  /\ RoomFor(nd, nd.pm.cancels, Cardinality(cancelled(m)))
  /\ RoomFor(nd, nd.pm.incoming, 1)
  /\ Len(nd.newBlocks) + Len(bs) <= HasBlockBufferSize
  /\ calls' = Append(calls, [op |-> "ReceiveMessage", msg |-> m, at |-> at])
  /\ SetNode(Local, ReceiveMessageErr(nd, p, m, bs, at))
  /\ UNCHANGED <<prqVars, batch, net, routing, online>>

NextReceive ==
  \/ \E m \in Received : \E bs \in blockSeqs(m.blocks) :
       \E at \in 0..Len(bs) : DoReceive(Remote, m, bs, at)
  \/ pmIncoming(Local)
  \/ pmSignal(Local)
  \/ pmCancel(Local)
  \/ \E w \in Workers(node[Local]) : runQueueConnect(Local, w)
  \/ \E w \in Workers(node[Local]) : runQueueSnapshot(Local, w)
  \/ \E w \in Workers(node[Local]) : runQueueSendStream(Local, w)

SpecReceive == InitPM /\ [][NextReceive]_vars

\* the blocks that the call of ReceiveMessage made in this step has stored
\* and published: those its HasBlock calls have sent on newBlocks
storedNow ==
  Range(SubSeq(node'[Local].newBlocks, Len(node[Local].newBlocks) + 1,
               Len(node'[Local].newBlocks)))

\* the messages to be broadcast that wait in pm.incoming
broadcasts(nd) ==
  SelectSeq([i \in DOMAIN nd.pm.incoming |->
               IF nd.pm.incoming[i].to = "" THEN wire(nd.pm.incoming[i].msg)
               ELSE Nil],
            LAMBDA x : x # Nil)

\* C19: a call of ReceiveMessage that stores and publishes blocks hands to
\* the peer manager, for broadcast to every queue, one non-Full message that
\* holds a Cancel entry for the key of each of these blocks; a call for a
\* message without blocks hands it no broadcast.
C19_CancelAfterReceive ==
  [][calls' # calls =>
       LET before == broadcasts(node[Local])
           after  == broadcasts(node'[Local])
       IN IF storedNow = {} THEN after = before
          ELSE /\ Len(after) = Len(before) + 1
               /\ SubSeq(after, 1, Len(before)) = before
               /\ ~after[Len(after)].full
               /\ after[Len(after)].blocks = {}
               /\ \A k \in storedNow :
                    /\ k \in DOMAIN after[Len(after)].wl
                    /\ after[Len(after)].wl[k].cancel]_vars

\* ReceiveMessage has returned the error of a Put after it had stored and
\* published a block of the same message
C19_StoredThenFailed ==
  \E i \in DOMAIN calls : calls[i].at > 1

\* the cancel of a call whose HasBlock calls all returned nil has reached
\* the queues of both peers
C19_CancelQueued ==
  /\ \E i \in DOMAIN calls : calls[i].at = 0 /\ calls[i].msg.blocks # {}
  /\ \A p \in QueuePeers :
       LET mq == node[Local].pm.peers[p]
       IN mq.wlmsg # Nil /\ "k1" \in DOMAIN mq.wlmsg.wl
          /\ mq.wlmsg.wl["k1"].cancel

\* ------------------------------------------------------------------------
\* The comparator of the outer queue, applied by the heap to two partners
\* in either order.  batch holds the two partners and, once the heap has
\* compared them (pc), the two results.
\* ------------------------------------------------------------------------

\* the partners the comparator is given: pending may have been driven
\* below 0 by Remove
Partners ==
  {[newActivePartner EXCEPT !.requests = r, !.active = a] :
     r \in (-MaxOverCancel)..MaxTasks, a \in 0..MaxTasks}

InitCompare ==
  /\ prq = newPRQ /\ inflight = {} /\ panicked = FALSE
  /\ node = <<>> /\ net = EmptyBag /\ routing = <<>> /\ calls = <<>>
  /\ online = {}
  /\ batch \in [pa : Partners, pb : Partners, pc : {"call"},
               ab : {FALSE}, ba : {FALSE}]

\* the heap's Less(i, j) and Less(j, i)
pqLess ==
  /\ batch.pc = "call"
  /\ batch' = [batch EXCEPT !.pc = "done",
                            !.ab = partnerCompare(batch.pa, batch.pb),
                            !.ba = partnerCompare(batch.pb, batch.pa)]
  /\ UNCHANGED <<prqVars, netVars>>

NextCompare == pqLess

SpecCompare == InitCompare /\ [][NextCompare]_vars

\* a peer with nothing pending and nothing in flight
idlePartner(p) == p.requests = 0 /\ p.active = 0

\* C28 (as stated): a peer with pending = 0 ranks below every peer with
\* pending > 0 and above no peer; of two peers with pending > 0 the one with
\* the smaller active count ranks higher; a peer with pending = 0 and
\* active = 0 ranks strictly lowest: below every peer that is not such a
\* peer itself.
C28_IdleStrictlyLowest ==
  batch.pc = "done" =>
    /\ batch.pa.requests = 0 => ~batch.ab
    /\ (batch.pa.requests = 0 /\ batch.pb.requests > 0) => batch.ba
    /\ (batch.pa.requests > 0 /\ batch.pb.requests > 0)
         => (batch.ab <=> batch.pa.active < batch.pb.active)
    /\ (idlePartner(batch.pa) /\ ~idlePartner(batch.pb)) => batch.ba

\* C28 (amended): a peer with pending = 0 ranks below every peer with
\* pending > 0 and above no peer; of two peers with pending > 0 the one with
\* the smaller active count ranks higher; two peers with pending = 0 rank
\* equal whatever their active counts, so a peer with pending = 0 and
\* active = 0 ranks below the peers with pending > 0 only.
C28_PendingThenActive ==
  batch.pc = "done" =>
    /\ batch.pa.requests = 0 => ~batch.ab
    /\ (batch.pa.requests = 0 /\ batch.pb.requests > 0) => batch.ba
    /\ (batch.pa.requests > 0 /\ batch.pb.requests > 0)
         => (batch.ab <=> batch.pa.active < batch.pb.active)
    /\ (batch.pa.requests = 0 /\ batch.pb.requests = 0)
         => (~batch.ab /\ ~batch.ba)

\* the comparator has been applied to an idle peer and a peer with nothing
\* pending and two blocks in flight
C28_Witness ==
  /\ batch.pc = "done"
  /\ idlePartner(batch.pa)
  /\ batch.pb.requests = 0 /\ batch.pb.active = 2

\* ------------------------------------------------------------------------
\* The order in which Run applies the calls of one caller.  The caller
\* issues Send (of a block), CancelBlock, Connected and Disconnected for the
\* peer QmB, one after the other; calls is the sequence of these calls.
\* Each call is a send on the channel of its kind, and Run's select takes
\* any of the channels that hold a value.
\* ------------------------------------------------------------------------

\* a worker whose done channel is closed: in its select it returns; in a
\* cycle it goes on to the end of it (ConnectTo, the snapshot, the sends),
\* and a nil wlm panics in wlm.Empty()
runQueueStopped(n, i) ==
  LET nd   == node[n]
      pm   == nd.pm
      w    == pm.stopped[i]
      snap == IF w.mq.pc \in {"connect", "snap"}
              THEN [w.mq EXCEPT !.wlm = w.mq.wlmsg, !.blks = w.mq.blocks,
                                !.wlmsg = Nil, !.blocks = {}]
              ELSE w.mq
  IN
  /\ Running(n)
  /\ IF w.mq.pc = "idle"
     THEN /\ SetNode(n, [nd EXCEPT !.pm.stopped =
                 SubSeq(@, 1, i - 1) \o SubSeq(@, i + 1, Len(@))])
          /\ UNCHANGED net
     ELSE IF snap.wlm = Nil
     THEN /\ SetNode(n, [nd EXCEPT !.panicked = TRUE])
          /\ UNCHANGED net
     ELSE /\ \E s \in sendOrders(snap) : net' = [net EXCEPT ![w.p] = s]
          /\ SetNode(n, [nd EXCEPT !.pm.stopped[i].mq =
                 [snap EXCEPT !.pc = "idle", !.wlm = Nil, !.blks = {}]])
  /\ UNCHANGED <<prqVars, batch, routing, calls, online>>

\* a call on the peer manager for peer p (and key k), recorded in calls
issue(op, p, k, pm) ==
  /\ Running(Local) /\ Len(calls) < MaxSends
  /\ calls' = Append(calls, [op |-> op, p |-> p, k |-> k])
  /\ SetNode(Local, [node[Local] EXCEPT !.pm = pm])
  /\ UNCHANGED <<prqVars, batch, net, routing, online>>

IssueSend(p, k) ==
  /\ RoomFor(node[Local], node[Local].pm.incoming, 1)
  /\ issue("Send", p, k,
           Send(node[Local].pm, p, New(node[Local].pm, blockMsg(k))))

IssueCancelBlock(p, k) ==
  /\ RoomFor(node[Local], node[Local].pm.cancels, 1)
  /\ issue("CancelBlock", p, k, CancelBlock(node[Local].pm, p, k))

IssueConnected(p) ==
  /\ RoomFor(node[Local], node[Local].pm.connect, 1)
  /\ issue("Connected", p, "", Connected(node[Local].pm, p))

IssueDisconnected(p) ==
  /\ RoomFor(node[Local], node[Local].pm.disconnect, 1)
  /\ issue("Disconnected", p, "", Disconnected(node[Local].pm, p))

NextOrder ==
  \/ IssueSend(Remote, "k1")
  \/ IssueCancelBlock(Remote, "k1")
  \/ IssueConnected(Remote)
  \/ IssueDisconnected(Remote)
  \/ pmIncoming(Local)
  \/ pmSignal(Local)
  \/ pmConnect(Local)
  \/ pmDisconnect(Local)
  \/ pmCancel(Local)
  \/ \E w \in Workers(node[Local]) : runQueueConnect(Local, w)
  \/ \E w \in Workers(node[Local]) : runQueueSnapshot(Local, w)
  \/ \E w \in Workers(node[Local]) : runQueueSendStream(Local, w)
  \/ \E i \in DOMAIN node[Local].pm.stopped : runQueueStopped(Local, i)

SpecOrder == InitPM /\ [][NextOrder]_vars

\* the channel a call of kind op sends on
chanOf(pm, op) ==
  CASE op = "Send" -> pm.incoming
    [] op = "CancelBlock" -> pm.cancels
    [] op = "Connected" -> pm.connect
    [] op = "Disconnected" -> pm.disconnect

\* call i of log cs still waits in its channel: a channel is first in,
\* first out, so it holds the last calls of its kind
waits(cs, pm, i) ==
  Cardinality({j \in DOMAIN cs : j >= i /\ cs[j].op = cs[i].op})
    <= Len(chanOf(pm, cs[i].op))

\* every channel of the peer manager is empty and Run waits in its select
drained(pm) ==
  /\ pm.incoming = <<>> /\ pm.connect = <<>> /\ pm.disconnect = <<>>
  /\ pm.cancels = <<>> /\ pm.run = "select"

\* the last call issued for peer p is a Disconnected
disconnectedLast(p) ==
  /\ \E i \in DOMAIN calls : calls[i].p = p
  /\ LET l == CHOOSE i \in DOMAIN calls :
                calls[i].p = p /\ \A j \in DOMAIN calls :
                                    calls[j].p = p => j <= i
     IN calls[l].op = "Disconnected"

\* C32 (as stated): the peer manager applies the calls of one caller in
\* the order they were issued: when Run takes a call from its channel, no
\* call issued before it for the same peer still waits (a CancelBlock
\* issued after a Send is applied after the message was enqueued, a Send
\* issued before a Disconnected is not applied after it); so when
\* Disconnected(p) is the last call issued for p and the channels are
\* drained, the peer manager holds no queue, and so no worker, for p.
C32_IssueOrder ==
  /\ [](\A p \in QueuePeers :
          (disconnectedLast(p) /\ drained(node[Local].pm))
            => p \notin DOMAIN node[Local].pm.peers)
  /\ [][\A j \in DOMAIN calls :
          (waits(calls, node[Local].pm, j) /\ ~waits(calls, node'[Local].pm, j))
            => \A i \in 1..(j - 1) :
                 calls[i].p = calls[j].p => ~waits(calls, node[Local].pm, i)]_vars

\* Send(QmB, block k1) and then Disconnected(QmB) were issued, Run took
\* the Disconnected first and the Send after it: the channels are drained
\* and QmB has a queue with the block pending and a worker
C32_QueueAfterDisconnect ==
  /\ disconnectedLast(Remote) /\ drained(node[Local].pm)
  /\ Remote \in DOMAIN node[Local].pm.peers
  /\ \E i \in DOMAIN node[Local].pm.stopped :
       node[Local].pm.stopped[i].p = Remote

\* CancelBlock(QmB, k1) was issued after Send(QmB, block k1) and applied
\* before it: the channels are drained and the block is still pending or
\* on its way to QmB
C32_CancelOvertakes ==
  /\ Len(calls) = 2 /\ calls[1].op = "Send" /\ calls[2].op = "CancelBlock"
  /\ drained(node[Local].pm)
  /\ \/ "k1" \in node[Local].pm.peers[Remote].blocks
     \/ "k1" \in node[Local].pm.peers[Remote].blks
     \/ blockMsg("k1") \in Range(net[Remote])


\* ------------------------------------------------------------------------
\* Two nodes on the virtual network (testnet/virtual.go), each told of the
\* other with PeerConnected; their wantlists are empty and they hold no
\* blocks.  ConnectTo of the virtual network notifies both sides each time
\* it is called.  calls is the log of the wakes of the queue workers, as
\* far as MaxWakes.
\* ------------------------------------------------------------------------

\* the wakes the log holds at most
MaxWakes == 3

\* networkClient.ConnectTo from node n to peer p: an error for a peer the
\* network does not have, else PeerConnected(n) on p and PeerConnected(p)
\* on n
ConnectTo(nds, n, p) ==
  IF p \notin DOMAIN nds THEN nds
  ELSE [nds EXCEPT ![p] = PeerConnected(@, n), ![n] = PeerConnected(@, p)]

\* case <-mq.work with the virtual network: the worker calls ConnectTo;
\* the sends of PeerConnected on pm.connect and pm.incoming wait for room
runQueueConnectTo(n, w) ==
  LET nds == ConnectTo([node EXCEPT ![n] =
                          putQueue(@, w, [w.mq EXCEPT !.pc = "snap"])],
                       n, w.p)
  IN
  /\ Running(n) /\ w \in Workers(node[n]) /\ w.mq.pc = "connect"
  /\ \A m \in {n, w.p} \cap DOMAIN node :
       /\ RoomFor(node[m], node[m].pm.connect, 1)
       /\ RoomFor(node[m], node[m].pm.incoming, 1)
  /\ node' = [m \in DOMAIN node |-> [nds[m] EXCEPT !.pm = canon(@)]]
  /\ calls' = IF Len(calls) < MaxWakes
              THEN Append(calls, [op |-> "wake", node |-> n, p |-> w.p])
              ELSE calls
  /\ UNCHANGED <<prqVars, batch, net, routing, online>>

VirtualStep(n) ==
  \/ pmIncoming(n)
  \/ pmSignal(n)
  \/ pmConnect(n)
  \/ \E w \in Workers(node[n]) : runQueueConnectTo(n, w)
  \/ \E w \in Workers(node[n]) : runQueueSnapshot(n, w)
  \/ \E w \in Workers(node[n]) : runQueueSend(n, w)

NextVirtual == \E n \in {Local, Remote} : VirtualStep(n)

\* the goroutines of the nodes are scheduled: a step that stays possible is
\* taken
SpecVirtual == InitNet /\ [][NextVirtual]_vars /\ WF_vars(NextVirtual)

\* a queue worker of a running process has been woken: it has received
\* from its work channel and is about to call ConnectTo
woken ==
  \E n \in DOMAIN node : \E p \in DOMAIN node[n].pm.peers :
    Running(n) /\ node[n].pm.peers[p].pc = "connect"

\* C33 (as stated): two connected peers of the virtual network whose
\* wantlists are empty and that hold no blocks reach a state after which no
\* queue worker is woken again: the ConnectTo of a wake, which notifies
\* both sides and makes each send its wantlist, starts no endless exchange
\* of wakes.
C33_Quiescence == <>[]~woken

\* the log holds MaxWakes wakes, the last of them of a worker that had
\* already been woken before, and nothing but empty wantlists was ever
\* sent: the wantlists are empty, no block is stored and no message is on
\* the network
C33_WokenAgain ==
  /\ Len(calls) = MaxWakes
  /\ \E i \in 1..(MaxWakes - 1) : calls[i] = calls[MaxWakes]
  /\ net = EmptyBag
  /\ \A n \in DOMAIN node :
       /\ node[n].wantlist = <<>> /\ node[n].blockstore = {}
       /\ ~node[n].panicked

====
